---------------------------- MODULE Spec2Model ----------------------------
(***************************************************************************)
(* State-machine model of the DeadBot raid payout bot.                     *)
(*                                                                         *)
(* The repository holds two revisions of the bot:                          *)
(*   rev = "bot"     src/bot.py + src/utils.py + src/admin_char_cmds.py    *)
(*                   (PostgreSQL store, registration commands)             *)
(*   rev = "legacy"  src/raid_manager_bot.py (flat-file store)             *)
(* Init chooses the revision; every action is the code of one handler      *)
(* between two suspension points (awaits) of the event loop.               *)
(*                                                                         *)
(* Text values (character names, roster fields, participant ids) are       *)
(* sequences of one-character strings, so that strip / lower / isdigit     *)
(* are computed and not assumed.                                           *)
(***************************************************************************)
EXTENDS Integers, Sequences, FiniteSets, TLC

(***************************************************************************)
(* Bounds of the model.                                                    *)
(***************************************************************************)
\* number of command invocations dispatched in a run of the model
MaxInvocations == 2
\* cap on the length of the run log (store and cache)
MaxLogs == 3

(***************************************************************************)
(* Program constants.                                                      *)
(***************************************************************************)
\* bot.py:51  max_retries = 5
MaxRetries == 5
\* config.py:13  RAID_LEADER_CUT_PERCENTAGE = 0.015, in 1/1000
RaidLeaderCutPermille == 15
\* config.py:12  GUILD_CUT_PERCENTAGE = 0.035, in 1/1000
GuildCutPermille == 35

(***************************************************************************)
(* Text helpers (Python str methods on sequences of characters).           *)
(***************************************************************************)
UpperChars == <<"A","B","C","D","E","F","G","H","I","J","K","L","M",
                "N","O","P","Q","R","S","T","U","V","W","X","Y","Z">>
LowerChars == <<"a","b","c","d","e","f","g","h","i","j","k","l","m",
                "n","o","p","q","r","s","t","u","v","w","x","y","z">>
DigitChars == {"0","1","2","3","4","5","6","7","8","9"}
SpaceChars == {" "}

\* str.lower() of one character
LowerChar(c) ==
    IF \E i \in 1..Len(UpperChars) : UpperChars[i] = c
    THEN LowerChars[CHOOSE i \in 1..Len(UpperChars) : UpperChars[i] = c]
    ELSE c

\* str.upper() of one character
UpperChar(c) ==
    IF \E i \in 1..Len(LowerChars) : LowerChars[i] = c
    THEN UpperChars[CHOOSE i \in 1..Len(LowerChars) : LowerChars[i] = c]
    ELSE c

\* str.lower()
Lower(s) == [i \in 1..Len(s) |-> LowerChar(s[i])]

\* str.capitalize(): first character upper-cased, the rest lower-cased
Capitalize(s) == [i \in 1..Len(s) |-> IF i = 1 THEN UpperChar(s[i]) ELSE LowerChar(s[i])]

RECURSIVE LStrip(_)
LStrip(s) == IF s # <<>> /\ Head(s) \in SpaceChars THEN LStrip(Tail(s)) ELSE s

RECURSIVE RStrip(_)
RStrip(s) ==
    IF s # <<>> /\ s[Len(s)] \in SpaceChars THEN RStrip(SubSeq(s, 1, Len(s) - 1)) ELSE s

\* str.strip()
Strip(s) == RStrip(LStrip(s))

\* str.isdigit(): non-empty and every character a digit
IsDigit(s) == s # <<>> /\ \A i \in 1..Len(s) : s[i] \in DigitChars

\* str.replace(" ", "")
RECURSIVE RemoveSpaces(_)
RemoveSpaces(s) ==
    IF s = <<>> THEN <<>>
    ELSE IF Head(s) = " " THEN RemoveSpaces(Tail(s))
    ELSE <<Head(s)>> \o RemoveSpaces(Tail(s))

\* sub in s  (substring test)
Contains(sub, s) ==
    \E i \in 1..(Len(s) - Len(sub) + 1) : SubSeq(s, i, i + Len(sub) - 1) = sub

(***************************************************************************)
(* Values the commands are invoked with.                                   *)
(***************************************************************************)
\* participant ids (str(user.id))
U1 == <<"1","1">>
U2 == <<"2","2">>
Users == {U1, U2}

\* payment_alt_name as typed by the caller (surrounding blanks included)
AltInputs == {<<"T","h">>, <<" ","J","a"," ">>}
\* app_commands.Choice values of the faction parameter
FactionChoices == {<<"H","o","r","d","e">>, <<"A","l","l","i","a","n","c","e">>}

\* Python's None, where a dict is expected
None == [none |-> TRUE]


(***************************************************************************)
(* Dates and file names.                                                   *)
(***************************************************************************)
DigitSeq == <<"0","1","2","3","4","5","6","7","8","9">>
DigitVal(c) == (CHOOSE i \in 1..10 : DigitSeq[i] = c) - 1

\* int() of a run of digits
RECURSIVE ToInt(_)
ToInt(s) == IF s = <<>> THEN 0 ELSE 10 * ToInt(SubSeq(s, 1, Len(s) - 1)) + DigitVal(s[Len(s)])

\* str.split(sep) for a one-character separator
RECURSIVE SplitOn(_, _)
SplitOn(s, sep) ==
    IF \A i \in 1..Len(s) : s[i] # sep THEN <<s>>
    ELSE LET k == CHOOSE i \in 1..Len(s) : s[i] = sep /\ \A j \in 1..(i - 1) : s[j] # sep
         IN  <<SubSeq(s, 1, k - 1)>> \o SplitOn(SubSeq(s, k + 1, Len(s)), sep)

IsLeap(y) == (y % 4 = 0 /\ y % 100 # 0) \/ y % 400 = 0
DaysIn(m, y) ==
    IF m = 2 THEN (IF IsLeap(y) THEN 29 ELSE 28)
    ELSE IF m \in {4, 6, 9, 11} THEN 30 ELSE 31

\* the fields of a date accepted by strptime: %Y is four digits, %m and %d one
\* or two, and the day must exist
DateFieldsOk(y, m, d) ==
    /\ IsDigit(y) /\ Len(y) = 4 /\ ToInt(y) >= 1
    /\ IsDigit(m) /\ Len(m) <= 2 /\ ToInt(m) \in 1..12
    /\ IsDigit(d) /\ Len(d) <= 2 /\ ToInt(d) >= 1 /\ ToInt(d) <= DaysIn(ToInt(m), ToInt(y))

\* is_valid_date: strptime(date_string, '%Y-%m-%d') does not raise
is_valid_date(s) ==
    LET p == SplitOn(s, "-")
    IN  Len(p) = 3 /\ DateFieldsOk(p[1], p[2], p[3])

\* str(n) of an integer that is not negative
RECURSIVE Str(_)
Str(n) == IF n < 10 THEN <<DigitSeq[n + 1]>> ELSE Str(n \div 10) \o <<DigitSeq[(n % 10) + 1]>>

Pad2(s) == IF Len(s) = 1 THEN <<"0">> \o s ELSE s

\* strptime(date_str, '%d-%m-%Y').strftime('%Y-%m-%d'); None stands for ValueError
ReformatDMY(s) ==
    LET p == SplitOn(s, "-")
    IN  IF Len(p) = 3 /\ DateFieldsOk(p[3], p[2], p[1])
        THEN p[3] \o <<"-">> \o Pad2(p[2]) \o <<"-">> \o Pad2(p[1])
        ELSE <<"N","o","n","e">>

\* str.endswith(suffix)
EndsWith(s, suf) == Len(s) >= Len(suf) /\ SubSeq(s, Len(s) - Len(suf) + 1, Len(s)) = suf

\* roster_file.filename.lower().endswith(('.txt', '.csv'))
RosterFileNameOk(name) ==
    \/ EndsWith(Lower(name), <<".","t","x","t">>)
    \/ EndsWith(Lower(name), <<".","c","s","v">>)

(***************************************************************************)
(* Roster parsing.  A roster is the sequence of its rows, a row the        *)
(* sequence of its comma-separated fields.                                 *)
(***************************************************************************)
W_role == <<"r","o","l","e">>
W_spec == <<"s","p","e","c">>
W_name == <<"n","a","m","e">>
W_id == <<"i","d">>
W_date == <<"d","a","t","e">>
W_timestamp == <<"t","i","m","e","s","t","a","m","p">>
W_status == <<"s","t","a","t","u","s">>
W_absence == <<"a","b","s","e","n","c","e">>
W_tentative == <<"t","e","n","t","a","t","i","v","e">>
W_bench == <<"b","e","n","c","h">>

\* utils.py:197  EXCLUDED_ROLES
EXCLUDED_ROLES == {W_absence, W_tentative, W_bench}

\* None of run_date (utils.py:193)
NoDate == <<"N","o","n","e">>

\* the row is the event-summary header (utils.py:211)
IsEventHeader(row) ==
    Len(row) > 1 /\ Lower(Strip(row[1])) = W_name /\ Lower(Strip(row[2])) = W_date

\* the row is the player-list header (utils.py:226)
IsPlayerHeader(row) ==
    Len(row) > 1 /\ Lower(Strip(row[1])) = W_role /\ Lower(Strip(row[2])) = W_spec

\* utils.py:214-221: the date of the row after the event-summary header; a
\* missing row (StopIteration), a short row (IndexError) or a bad date
\* (ValueError) leave run_date as it was
EventDate(rows, i, run_date) ==
    IF i + 1 > Len(rows) THEN run_date
    ELSE IF Len(rows[i + 1]) < 2 THEN run_date
    ELSE IF ReformatDMY(Strip(rows[i + 1][2])) = NoDate THEN run_date
    ELSE ReformatDMY(Strip(rows[i + 1][2]))

\* utils.py:204-247, the loop from row i on; acc = [run_date, active, benched,
\* parsing_players]
RECURSIVE ParseRows(_, _, _)
ParseRows(rows, i, acc) ==
    IF i > Len(rows) THEN <<acc.run_date, acc.active, acc.benched>>
    ELSE LET row == rows[i] IN
      IF row = <<>> THEN ParseRows(rows, i + 1, acc)
      ELSE IF ~acc.parsing_players /\ IsEventHeader(row)
      THEN \* next(reader) consumes the following row
           ParseRows(rows, i + 2, [acc EXCEPT !.run_date = EventDate(rows, i, acc.run_date)])
      ELSE IF IsPlayerHeader(row)
      THEN ParseRows(rows, i + 1, [acc EXCEPT !.parsing_players = TRUE])
      ELSE IF ~acc.parsing_players \/ Len(row) < 4
      THEN ParseRows(rows, i + 1, acc)
      ELSE LET role == Lower(Strip(row[1]))
               player_name == Strip(row[3])
               discord_id == Strip(row[4])
           IN  IF player_name = <<>> \/ discord_id = <<>>
               THEN ParseRows(rows, i + 1, acc)
               ELSE IF role \in EXCLUDED_ROLES
               THEN ParseRows(rows, i + 1, [acc EXCEPT !.benched = Append(@, player_name)])
               ELSE IF IsDigit(discord_id)
               THEN ParseRows(rows, i + 1,
                              [acc EXCEPT !.active = Append(@, <<player_name, discord_id>>)])
               ELSE ParseRows(rows, i + 1, acc)

\* the parse with the active list in the opposite order
ParseActiveReversed(rows) ==
    LET r == ParseRows(rows, 1, [run_date |-> NoDate, active |-> <<>>, benched |-> <<>>,
                                 parsing_players |-> FALSE])
    IN  <<r[1], [k \in 1..Len(r[2]) |-> r[2][Len(r[2]) + 1 - k]], r[3]>>

\* utils.parse_roster_data: (run_date, active_boosters, benched_players)
parse_roster_data(rows) ==
    ParseRows(rows, 1, [run_date |-> NoDate, active |-> <<>>, benched |-> <<>>,
                        parsing_players |-> FALSE])

\* ",".join(row): the line a row was split from
RECURSIVE JoinComma(_)
JoinComma(row) ==
    IF row = <<>> THEN <<>>
    ELSE IF Len(row) = 1 THEN row[1]
    ELSE row[1] \o <<",">> \o JoinComma(Tail(row))

\* raid_manager_bot.py:74  expected_header
expected_header ==
    JoinComma(<<W_role, W_spec, W_name, W_id, W_timestamp, W_status>>)

\* raid_manager_bot.py:75-77: index of the first row after the header line, 0
\* when no line is the header
LegacyDataStart(rows) ==
    IF \E i \in 1..Len(rows) : Lower(Strip(JoinComma(rows[i]))) = expected_header
    THEN 1 + (CHOOSE i \in 1..Len(rows) :
                /\ Lower(Strip(JoinComma(rows[i]))) = expected_header
                /\ \A j \in 1..(i - 1) : Lower(Strip(JoinComma(rows[j]))) # expected_header)
    ELSE 0

\* raid_manager_bot.py:78-87, the loop from row i on
RECURSIVE LegacyParseRows(_, _, _, _)
LegacyParseRows(rows, i, active, benched) ==
    IF i > Len(rows) THEN <<active, benched>>
    ELSE LET parts == [k \in 1..Len(rows[i]) |-> Strip(rows[i][k])] IN
      IF Strip(JoinComma(rows[i])) = <<>> \/ Len(parts) < 4
      THEN LegacyParseRows(rows, i + 1, active, benched)
      ELSE IF /\ Lower(parts[1]) \notin {W_absence, W_bench}
              /\ parts[3] # <<>>
              /\ IsDigit(parts[4])
      THEN LegacyParseRows(rows, i + 1, Append(active, <<parts[3], parts[4]>>), benched)
      ELSE IF Lower(parts[1]) = W_bench /\ parts[3] # <<>>
      THEN LegacyParseRows(rows, i + 1, active, Append(benched, parts[3]))
      ELSE LegacyParseRows(rows, i + 1, active, benched)

\* parse_roster_data of raid_manager_bot.py: (active_boosters, benched_players)
legacy_parse_roster_data(rows) ==
    IF LegacyDataStart(rows) = 0 THEN << <<>>, <<>> >>
    ELSE LegacyParseRows(rows, LegacyDataStart(rows), <<>>, <<>>)

\* "a, b = value": the two items, or ValueError when value has not two
ValueError == <<"ValueError">>
Unpack2(value) == IF Len(value) = 2 THEN value ELSE ValueError

(***************************************************************************)
(* The split (bot.py:356-373, raid_manager_bot.py:285-302).  Amounts are   *)
(* exact: shares in 1/1000000 of a gold piece.                             *)
(***************************************************************************)
Micro == 1000 * 1000

\* The percentages are in 1/1000 (0.015 is 15), so that a share of a whole
\* total is a whole number of 1/1000000.

\* the raid-leader share taken as guild share as well
GuildShareOfTotal(total, rl_permille, guild_permille) == total * guild_permille * 1000

\* total_gold * rl_config_percentage, 0 when the percentage is not > 0
calculated_raid_leader_share_amount(total, rl_permille) ==
    IF rl_permille > 0 THEN total * rl_permille * 1000 ELSE 0

\* gold_after_rl_cut = total_gold - calculated_raid_leader_share_amount
gold_after_rl_cut(total, rl_permille) ==
    total * Micro - calculated_raid_leader_share_amount(total, rl_permille)

\* guild_share_amount = gold_after_rl_cut * guild_config_percentage
guild_share_amount(total, rl_permille, guild_permille) ==
    (gold_after_rl_cut(total, rl_permille) \div 1000) * guild_permille

\* the remainder with the raid-leader share left in
RemainingOfTotal(total, rl_permille, guild_permille) ==
    total * Micro - guild_share_amount(total, rl_permille, guild_permille)

\* remaining_gold_for_boosters = gold_after_rl_cut - guild_share_amount
remaining_gold_for_boosters(total, rl_permille, guild_permille) ==
    gold_after_rl_cut(total, rl_permille) - guild_share_amount(total, rl_permille, guild_permille)

\* gold_per_booster_precise, the quotient as <<numerator, denominator>>; 0
\* without active participants
gold_per_booster_precise(total, rl_permille, guild_permille, n) ==
    IF n = 0 THEN <<0, 1>>
    ELSE <<remaining_gold_for_boosters(total, rl_permille, guild_permille), n>>

\* the precise share rounded to the nearest whole number
GoldPerBoosterRounded(total, rl_permille, guild_permille, n) ==
    LET q == gold_per_booster_precise(total, rl_permille, guild_permille, n)
    IN  (q[1] + (q[2] * Micro) \div 2) \div (q[2] * Micro)

\* gold_per_booster_for_payment = int(gold_per_booster_precise)
gold_per_booster_for_payment(total, rl_permille, guild_permille, n) ==
    LET q == gold_per_booster_precise(total, rl_permille, guild_permille, n)
    IN  q[1] \div (q[2] * Micro)

\* the split with the percentages of config.py
RaidLeaderShare(total) == calculated_raid_leader_share_amount(total, RaidLeaderCutPermille)

GuildShare(total) == guild_share_amount(total, RaidLeaderCutPermille, GuildCutPermille)

RemainingForBoosters(total) ==
    remaining_gold_for_boosters(total, RaidLeaderCutPermille, GuildCutPermille)

GoldPerBoosterForPayment(total, n) ==
    gold_per_booster_for_payment(total, RaidLeaderCutPermille, GuildCutPermille, n)

\* round(num / den, 2) in 1/100, ties to even; den is a multiple of 100
Round2(num, den) ==
    LET unit == den \div 100
        q == num \div unit
        r == num % unit
    IN  IF 2 * r > unit \/ (2 * r = unit /\ q % 2 = 1) THEN q + 1 ELSE q

(***************************************************************************)
(* The store.                                                              *)
(*   store_alts  table alts (utils.py:52-56) / ALTS_FILE: a set of rows    *)
(*   store_logs  table run_logs (utils.py:61-77) / RUN_LOGS_FILE, in       *)
(*               insertion order                                           *)
(***************************************************************************)
AltRow(id, alt, faction) == [id |-> id, alt |-> alt, faction |-> faction]

\* INSERT ... ON CONFLICT (discord_user_id) DO UPDATE SET ...
Upsert(rows, id, alt, faction) ==
    {r \in rows : r.id # id} \cup {AltRow(id, alt, faction)}

\* a plain INSERT, without the ON CONFLICT clause and without the primary key
InsertRow(rows, id, alt, faction) == rows \cup {AltRow(id, alt, faction)}

\* save_alt_to_db: the one statement it executes
save_alt_to_db(rows, id, alt, faction) == Upsert(rows, id, alt, faction)

\* load_all_alt_mappings_from_db: a dict keyed by str(discord_user_id)
load_all_alt_mappings_from_db(rows) ==
    [id \in {r.id : r \in rows} |->
        LET r == CHOOSE x \in rows : x.id = id
        IN  [alt |-> r.alt, faction |-> r.faction]]

\* load_alt_mappings of the flat-file revision: rows with an empty column are
\* skipped, the faction is capitalized
load_alt_mappings(rows) ==
    LET ok == {r \in rows : r.id # <<>> /\ r.alt # <<>> /\ r.faction # <<>>}
    IN  [id \in {r.id : r \in ok} |->
            LET r == CHOOSE x \in ok : x.id = id
            IN  [alt |-> r.alt, faction |-> Capitalize(r.faction)]]

RECURSIVE Reverse(_)
Reverse(s) == IF s = <<>> THEN <<>> ELSE Reverse(Tail(s)) \o <<Head(s)>>

\* load_all_run_logs_from_db: ... ORDER BY timestamp_utc DESC.  store_logs is
\* kept in insertion order and the timestamps grow with it.
load_all_run_logs_from_db(logs) == Reverse(logs)

\* load_run_logs of the flat-file revision: json.load of the file
load_run_logs(logs) == logs

\* dict.get(key): the value, or None
DictGet(d, k) == IF k \in DOMAIN d THEN d[k] ELSE None

\* d[key] = value
DictSet(d, k, v) == [x \in (DOMAIN d) \cup {k} |-> IF x = k THEN v ELSE d[x]]

(***************************************************************************)
(* State.                                                                  *)
(***************************************************************************)
VARIABLES
    rev,                  \* which revision of the bot runs
    phase,                \* "starting" until setup_hook has returned, then "ready"
    attempt,              \* connection attempts made by setup_hook
    db_pool,              \* RaidManagerBot.db_pool is set (not None)
    store_alts,           \* the registry in the store
    store_logs,           \* the run log in the store
    alt_mappings,         \* the in-memory registry cache
    run_logs,             \* the in-memory run-log list
    current_run_session,  \* the module-level CurrentRunData object
    tasks,                \* the command invocations in flight
    invocations,          \* number of invocations dispatched so far
    call                  \* a function of the program called on its own: its
                          \* name, its arguments and what it returned

vars == <<rev, phase, attempt, db_pool, store_alts, store_logs, alt_mappings,
          run_logs, current_run_session, tasks, invocations, call>>

\* the state of the process, without the function called on its own
process == <<rev, phase, attempt, db_pool, store_alts, store_logs, alt_mappings,
             run_logs, current_run_session, tasks, invocations>>

\* no function is called on its own
NoCall == [fn |-> "", arg |-> <<>>, out |-> <<>>]

\* the slots of the invocations that overlap: two handlers interleave at their
\* suspension points
Tasks == {1, 2}

\* CurrentRunData.__init__
NewRunData ==
    [total_gold |-> 0, roster_raw |-> <<>>, active_boosters |-> <<>>,
     benched_players |-> <<>>, guild_share |-> 0, raid_leader_share_amount |-> 0,
     gold_per_booster |-> 0, data_loaded |-> FALSE]

\* a slot with no invocation in it
IdleTask ==
    [cmd |-> "", pc |-> "idle", user |-> <<>>, alt |-> <<>>, faction |-> <<>>,
     total |-> 0, active |-> <<>>, amount |-> 0, replies |-> <<>>, trace |-> <<>>,
     authorized |-> TRUE]

\* a run logged by an earlier process
OldLogEntry ==
    [total_gold |-> 500, raid_leader_share_gold |-> 750, guild_share_gold |-> 1724,
     gold_per_booster |-> 47526, num_boosters |-> 1,
     active_boosters |-> <<[name |-> <<"O","x">>, discord_id |-> U2]>>,
     benched_players |-> <<>>, timestamp_utc |-> 1]

\* a second run logged by an earlier process, after the first
LaterLogEntry == [OldLogEntry EXCEPT !.timestamp_utc = 2]

\* the store when the process starts: empty, or left by an earlier process
OldStores ==
    { [alts |-> {}, logs |-> <<>>],
      [alts |-> {AltRow(U2, <<"O","x">>, <<"h","o","r","d","e">>)},
       logs |-> <<OldLogEntry, LaterLogEntry>>] }

Init ==
    /\ rev \in {"bot", "legacy"}
    /\ phase = "starting"
    /\ attempt = 0
    /\ db_pool = FALSE
    /\ \E old \in OldStores : store_alts = old.alts /\ store_logs = old.logs
    /\ alt_mappings = <<>>
    /\ run_logs = <<>>
    /\ current_run_session = NewRunData
    /\ tasks = [t \in Tasks |-> IdleTask]
    /\ invocations = 0
    /\ call = NoCall

(***************************************************************************)
(* Startup.                                                                *)
(***************************************************************************)
\* what one pass of the retry loop can do (bot.py:54-89)
AttemptOutcomes == {"connect_failed", "setup_failed", "load_alts_failed", "load_logs_failed", "connected"}

\* db_pool left as it is by the last failed attempt
PoolKeptOnLastFailure(pool, n, outcome) ==
    IF outcome = "connected" THEN TRUE
    ELSE IF outcome = "connect_failed" THEN pool
    ELSE TRUE

\* db_pool after an attempt: create_pool assigns it before the later steps can
\* raise; the last failed attempt sets it to None
PoolAfterAttempt(pool, n, outcome) ==
    IF outcome = "connected" THEN TRUE
    ELSE IF n >= MaxRetries - 1 THEN FALSE
    ELSE IF outcome = "connect_failed" THEN pool
    ELSE TRUE

\* RaidManagerBot.setup_hook, one pass of "for attempt in range(max_retries)"
SetupAttempt(outcome) ==
    /\ rev = "bot"
    /\ phase = "starting"
    /\ attempt < MaxRetries
    /\ db_pool' = PoolAfterAttempt(db_pool, attempt, outcome)
    /\ alt_mappings' = IF outcome \in {"load_logs_failed", "connected"}
                       THEN load_all_alt_mappings_from_db(store_alts)
                       ELSE alt_mappings
    /\ run_logs' = IF outcome = "connected"
                   THEN load_all_run_logs_from_db(store_logs)
                   ELSE run_logs
    /\ phase' = IF outcome = "connected" \/ attempt >= MaxRetries - 1
                THEN "ready" ELSE "starting"
    \* the loop variable is gone once the loop has ended
    /\ attempt' = IF phase' = "ready" THEN 0 ELSE attempt + 1
    /\ UNCHANGED <<call, rev, store_alts, store_logs, current_run_session, tasks, invocations>>

\* setup_hook of the flat-file revision (raid_manager_bot.py:148-153)
LegacySetup ==
    /\ rev = "legacy"
    /\ phase = "starting"
    /\ alt_mappings' = load_alt_mappings(store_alts)
    /\ run_logs' = load_run_logs(store_logs)
    /\ phase' = "ready"
    /\ UNCHANGED <<call, rev, attempt, db_pool, store_alts, store_logs, current_run_session, tasks, invocations>>

(***************************************************************************)
(* Replies.                                                                *)
(***************************************************************************)
\* the handler sends its last message and returns.  What stays of the
\* invocation is what the caller has seen: the command, its target, the
\* messages, and whether the role check let it in.
Reply(task, msg) ==
    [IdleTask EXCEPT !.cmd = task.cmd, !.pc = "done", !.user = task.user,
                     !.trace = task.trace, !.authorized = task.authorized,
                     !.replies = Append(task.replies, msg)]

\* the handler ends after the messages of an error handler (possibly none)
Finish(task, msgs) ==
    [IdleTask EXCEPT !.cmd = task.cmd, !.pc = "done", !.user = task.user,
                     !.trace = task.trace, !.authorized = task.authorized,
                     !.replies = task.replies \o msgs]

\* an invocation stopped by has_any_role: the handler body does not run
Denied(cmd) == [IdleTask EXCEPT !.cmd = cmd, !.authorized = FALSE]

InFlight(t) == tasks[t].pc \notin {"idle", "done"}

\* a slot an invocation can take: the first one with no handler running in it
Free(t) ==
    /\ ~InFlight(t)
    /\ \A o \in Tasks : o < t => InFlight(o)
    /\ invocations < MaxInvocations

\* an invocation of cmd enters a slot
NewTask(cmd) == [IdleTask EXCEPT !.cmd = cmd]

(***************************************************************************)
(* The interaction response and the error handlers.  is_done is            *)
(* interaction.response.is_done(); an error handler is given as the        *)
(* messages it gets through to the caller.                                 *)
(***************************************************************************)
\* interaction.response.send_message: InteractionResponded once the response
\* has been used (deferred or sent), and then nothing is sent
ResponseSendMessage(is_done, msg) == IF is_done THEN <<>> ELSE <<msg>>

\* interaction.followup.send
FollowupSend(msg) == <<msg>>

\* bot.py:667-688
cut_error(is_done, error) ==
    \* not is_done: the handler defers first; then always the followup
    IF error = "MissingAnyRole" THEN FollowupSend(<<"no_role">>)
    ELSE FollowupSend(<<"unexpected_error">>)

\* bot.py:283-292: send_method is chosen before the handler defers
log_error(is_done, error) ==
    LET use_followup == is_done
        done_after_defer == TRUE
        msg == IF error = "MissingAnyRole" THEN <<"no_permission">> ELSE <<"log_error">>
    IN  IF use_followup THEN FollowupSend(msg)
        ELSE ResponseSendMessage(done_after_defer, msg)

\* admin_char_cmds.py:69-82 and 105-117
admin_cmd_error(is_done, error) ==
    IF error = "MissingAnyRole" THEN FollowupSend(<<"no_permission">>)
    ELSE FollowupSend(<<"unexpected_error">>)

\* raid_manager_bot.py:204-208
legacy_log_error(is_done, error) ==
    LET msg == IF error = "MissingAnyRole" THEN <<"no_permission">> ELSE <<"log_error">>
    IN  IF is_done THEN FollowupSend(msg) ELSE ResponseSendMessage(is_done, msg)

\* raid_manager_bot.py:451-469
legacy_cut_error(is_done, error) ==
    LET msg == IF error = "MissingAnyRole" THEN <<"no_role">> ELSE <<"unexpected_error">>
    IN  IF ~is_done THEN ResponseSendMessage(is_done, msg) ELSE FollowupSend(msg)

(***************************************************************************)
(* set_payment_char / admin_set_payment_char.                              *)
(***************************************************************************)
\* bot.py:182-198: defer, the pool check, strip, and the call of save_alt_to_db,
\* which suspends the handler until the store has answered
SetPaymentCharStart(t, user, payment_alt_name, faction) ==
    /\ rev = "bot" /\ phase = "ready" /\ Free(t)
    /\ tasks' = [tasks EXCEPT ![t] =
         IF ~db_pool
         THEN Reply(NewTask("set_payment_char"), <<"db_unavailable">>)
         ELSE [NewTask("set_payment_char") EXCEPT !.pc = "saving", !.user = user,
                               !.alt = Strip(payment_alt_name), !.faction = faction]]
    /\ UNCHANGED <<call, rev, phase, attempt, db_pool, store_alts, store_logs, alt_mappings,
                   run_logs, current_run_session>>
    /\ invocations' = invocations + 1

\* the store executes the statement of save_alt_to_db, or fails it
StoreSaveAlt(t, ok) ==
    /\ tasks[t].pc = "saving"
    /\ store_alts' = IF ok
                     THEN save_alt_to_db(store_alts, tasks[t].user, tasks[t].alt, tasks[t].faction)
                     ELSE store_alts
    /\ tasks' = [tasks EXCEPT ![t].pc = IF ok THEN "saved" ELSE "save_failed"]
    /\ UNCHANGED <<call, rev, phase, attempt, db_pool, store_logs, alt_mappings, run_logs,
                   current_run_session, invocations>>

\* a handler that forgets the cache after the store write
CacheNotWritten(cache, task) == cache

\* a handler that writes the cache whatever the store answered
OptimisticCacheUpdate(cache, task) ==
    DictSet(cache, task.user, [alt |-> task.alt, faction |-> task.faction])

\* the cache as the handler leaves it once the await has returned
CacheAfterSave(cache, task) ==
    DictSet(cache, task.user, [alt |-> task.alt, faction |-> task.faction])

\* bot.py:200-206 / admin_char_cmds.py:50-61: the await returned
SetPaymentCharSaved(t) ==
    /\ tasks[t].pc = "saved"
    /\ alt_mappings' = CacheAfterSave(alt_mappings, tasks[t])
    /\ tasks' = [tasks EXCEPT ![t] = Reply(@, <<"set_ok", @.alt, @.faction>>)]
    /\ UNCHANGED <<call, rev, phase, attempt, db_pool, store_alts, store_logs, run_logs,
                   current_run_session, invocations>>

\* the cache as the except branch leaves it
CacheAfterFailedSave(cache, task) == cache

\* bot.py:208-212 / admin_char_cmds.py:63-67: the await raised
SetPaymentCharFailed(t) ==
    /\ tasks[t].pc = "save_failed"
    /\ alt_mappings' = CacheAfterFailedSave(alt_mappings, tasks[t])
    /\ tasks' = [tasks EXCEPT ![t] = Reply(@, <<"save_error">>)]
    /\ UNCHANGED <<call, rev, phase, attempt, db_pool, store_alts, store_logs, run_logs,
                   current_run_session, invocations>>

\* admin_char_cmds.py:31-48, behind has_any_role; a caller without the role
\* gets admin_set_payment_char_error (admin_char_cmds.py:69-82)
AdminSetPaymentCharStart(t, authorized, user, payment_alt_name, faction) ==
    /\ rev = "bot" /\ phase = "ready" /\ Free(t)
    /\ tasks' = [tasks EXCEPT ![t] =
         IF ~authorized
         THEN Finish(Denied("admin_set_payment_char"), admin_cmd_error(FALSE, "MissingAnyRole"))
         ELSE IF ~db_pool
         THEN Reply(NewTask("admin_set_payment_char"), <<"db_unavailable">>)
         ELSE [NewTask("admin_set_payment_char") EXCEPT !.pc = "saving", !.user = user,
                               !.alt = Strip(payment_alt_name), !.faction = faction]]
    /\ UNCHANGED <<call, rev, phase, attempt, db_pool, store_alts, store_logs, alt_mappings,
                   run_logs, current_run_session>>
    /\ invocations' = invocations + 1

\* the reply of the two check commands for a cache lookup
CheckReply(alt_info) ==
    IF alt_info # None THEN <<"registered", alt_info.alt, alt_info.faction>>
    ELSE <<"not_registered">>

\* bot.py:214-230
CheckPaymentAlt(t, user) ==
    /\ rev = "bot" /\ phase = "ready" /\ Free(t)
    /\ tasks' = [tasks EXCEPT ![t] =
         Reply([NewTask("check_payment_alt") EXCEPT !.user = user],
               CheckReply(DictGet(alt_mappings, user)))]
    /\ UNCHANGED <<call, rev, phase, attempt, db_pool, store_alts, store_logs, alt_mappings,
                   run_logs, current_run_session>>
    /\ invocations' = invocations + 1

\* admin_char_cmds.py:84-103, and admin_check_payment_alt_error (105-117)
AdminCheckPaymentAlt(t, authorized, user) ==
    /\ rev = "bot" /\ phase = "ready" /\ Free(t)
    /\ tasks' = [tasks EXCEPT ![t] =
         IF ~authorized
         THEN Finish(Denied("admin_check_payment_alt"), admin_cmd_error(FALSE, "MissingAnyRole"))
         ELSE Reply([NewTask("admin_check_payment_alt") EXCEPT !.user = user],
                    CheckReply(DictGet(alt_mappings, user)))]
    /\ UNCHANGED <<call, rev, phase, attempt, db_pool, store_alts, store_logs, alt_mappings,
                   run_logs, current_run_session>>
    /\ invocations' = invocations + 1

(***************************************************************************)
(* /cut.                                                                   *)
(***************************************************************************)
\* values /cut is invoked with
DateInputs == {<<"2","0","2","4","-","0","5","-","0","1">>, <<"0","1","-","0","5","-","2","0","2","4">>}
TotalInputs == {0, 1, 1000}
FileNameInputs == {<<"r",".","C","S","V">>, <<"r",".","p","n","g">>}
PaymentSubject == <<"S">>
PaymentBody == <<"B">>

PlayerHeaderRow == <<W_role, W_spec, W_name, W_id, W_timestamp, W_status>>
RosterNoHeader == << <<<<"d","p","s">>, <<>>, <<"A","l">>, U1, <<"t">>, <<"s">>>> >>
RosterA ==
    << PlayerHeaderRow,
       <<<<"d","p","s">>, <<>>, <<" ","A","l">>, U1, <<"t">>, <<"s">>>>,
       <<<<"B","e","n","c","h">>, <<>>, <<"B","o">>, <<"3">>, <<"t">>, <<"s">>>> >>
RosterB ==
    << PlayerHeaderRow,
       <<<<"T","a","n","k">>, <<>>, <<"O","x">>, U2, <<"t">>, <<"s">>>>,
       <<<<"d","p","s">>, <<>>, <<"A","l">>, U1, <<"t">>, <<"s">>>> >>
RosterInputs == {RosterNoHeader, RosterA, RosterB}

\* the /cut handlers running
CutsInFlight == Cardinality({t \in Tasks : tasks[t].cmd = "cut" /\ InFlight(t)})

\* the validations shared by the two revisions (bot.py:324-332,
\* raid_manager_bot.py:254-262): the rejection message, or <<>> when they pass
CutValidation(run_date, total_gold, filename) ==
    IF ~is_valid_date(run_date) THEN <<"invalid_date">>
    ELSE IF total_gold <= 0 THEN <<"total_not_positive">>
    ELSE IF ~RosterFileNameOk(filename) THEN <<"bad_file_type">>
    ELSE <<>>

\* current_run_session.reset() and the four assignments after it
\* (bot.py:342-346, raid_manager_bot.py:271-275)
SessionForRun(total_gold, roster) ==
    [NewRunData EXCEPT !.total_gold = total_gold, !.roster_raw = roster]

\* the session after the calculations (bot.py:352-374, raid_manager_bot.py:281-303)
SessionAfterSplit(total_gold, roster, active, benched) ==
    [SessionForRun(total_gold, roster) EXCEPT
        !.active_boosters = active,
        !.benched_players = benched,
        !.raid_leader_share_amount = RaidLeaderShare(total_gold),
        !.guild_share = GuildShare(total_gold),
        !.gold_per_booster = <<RemainingForBoosters(total_gold), Len(active)>>,
        !.data_loaded = TRUE]

\* the log entry of a run (bot.py:377-394, raid_manager_bot.py:306-319)
LogEntry(total_gold, active, benched, now) ==
    [total_gold |-> total_gold,
     raid_leader_share_gold |-> Round2(RaidLeaderShare(total_gold), Micro),
     guild_share_gold |-> Round2(GuildShare(total_gold), Micro),
     gold_per_booster |-> Round2(RemainingForBoosters(total_gold), Len(active) * Micro),
     num_boosters |-> Len(active),
     active_boosters |-> [i \in 1..Len(active) |->
                            [name |-> active[i][1], discord_id |-> active[i][2]]],
     benched_players |-> benched,
     timestamp_utc |-> now]

\* /cut with the validations before the test of db_pool
CutStartValidatingFirst(t, authorized, run_date, total_gold, filename) ==
    /\ rev = "bot" /\ phase = "ready" /\ Free(t)
    /\ Len(run_logs) + CutsInFlight < MaxLogs
    /\ tasks' = [tasks EXCEPT ![t] =
         IF ~authorized THEN Finish(Denied("cut"), cut_error(FALSE, "MissingAnyRole"))
         ELSE IF CutValidation(run_date, total_gold, filename) # <<>>
         THEN Reply(NewTask("cut"), CutValidation(run_date, total_gold, filename))
         ELSE IF ~db_pool THEN Reply(NewTask("cut"), <<"db_unavailable">>)
         ELSE [NewTask("cut") EXCEPT !.pc = "reading", !.total = total_gold]]
    /\ invocations' = invocations + 1
    /\ UNCHANGED <<call, rev, phase, attempt, db_pool, store_alts, store_logs, alt_mappings,
                   run_logs, current_run_session>>

\* bot.py:305-332 behind has_any_role: cut_error for a caller without the role,
\* else defer, the pool check and the validations, up to "await roster_file.read()"
CutStart(t, authorized, run_date, total_gold, filename) ==
    /\ rev = "bot" /\ phase = "ready" /\ Free(t)
    /\ Len(run_logs) + CutsInFlight < MaxLogs
    /\ tasks' = [tasks EXCEPT ![t] =
         IF ~authorized THEN Finish(Denied("cut"), cut_error(FALSE, "MissingAnyRole"))
         ELSE IF ~db_pool THEN Reply(NewTask("cut"), <<"db_unavailable">>)
         ELSE IF CutValidation(run_date, total_gold, filename) # <<>>
         THEN Reply(NewTask("cut"), CutValidation(run_date, total_gold, filename))
         ELSE [NewTask("cut") EXCEPT !.pc = "reading", !.total = total_gold]]
    /\ invocations' = invocations + 1
    /\ UNCHANGED <<call, rev, phase, attempt, db_pool, store_alts, store_logs, alt_mappings,
                   run_logs, current_run_session>>

\* bot.py:334-351: the file has been read (or not); the session is reset and
\* filled, the roster parsed.  utils.parse_roster_data returns three values and
\* line 348 unpacks two, so the handler leaves by ValueError and cut_error
\* answers; the branches after the unpacking are those of lines 349-397.
CutRead(t, read_ok, roster) ==
    /\ rev = "bot" /\ tasks[t].cmd = "cut" /\ tasks[t].pc = "reading"
    /\ LET total_gold == tasks[t].total
           parsed == Unpack2(parse_roster_data(roster))
           traced == [tasks[t] EXCEPT !.trace = <<"parse">>]
       IN  IF ~read_ok
           THEN /\ tasks' = [tasks EXCEPT ![t] = Reply(@, <<"read_error">>)]
                /\ UNCHANGED current_run_session
           ELSE IF parsed = ValueError
           THEN /\ current_run_session' = SessionForRun(total_gold, roster)
                /\ tasks' = [tasks EXCEPT ![t] = Finish(traced, cut_error(TRUE, "Other"))]
           ELSE IF parsed[1] = <<>>
           THEN /\ current_run_session' = SessionForRun(total_gold, roster)
                /\ tasks' = [tasks EXCEPT ![t] = Reply(traced, <<"no_active_boosters">>)]
           ELSE /\ current_run_session' =
                       SessionAfterSplit(total_gold, roster, parsed[1], parsed[2])
                /\ tasks' = [tasks EXCEPT ![t] =
                       [traced EXCEPT !.pc = "saving_log", !.active = parsed[1],
                           !.amount = GoldPerBoosterForPayment(total_gold, Len(parsed[1])),
                           !.trace = <<"parse", "compute">>]]
    /\ UNCHANGED <<call, rev, phase, attempt, db_pool, store_alts, store_logs, alt_mappings,
                   run_logs, invocations>>

\* raid_manager_bot.py:237-262 behind has_any_role
LegacyCutStart(t, authorized, run_date, total_gold, filename) ==
    /\ rev = "legacy" /\ phase = "ready" /\ Free(t)
    /\ Len(run_logs) + CutsInFlight < MaxLogs
    /\ tasks' = [tasks EXCEPT ![t] =
         IF ~authorized THEN Finish(Denied("cut"), legacy_cut_error(FALSE, "MissingAnyRole"))
         ELSE IF CutValidation(run_date, total_gold, filename) # <<>>
         THEN Reply(NewTask("cut"), CutValidation(run_date, total_gold, filename))
         ELSE [NewTask("cut") EXCEPT !.pc = "reading", !.total = total_gold]]
    /\ invocations' = invocations + 1
    /\ UNCHANGED <<call, rev, phase, attempt, db_pool, store_alts, store_logs, alt_mappings,
                   run_logs, current_run_session>>

\* a handler that writes the log entry before it has computed the split
StepsPersistBeforeCompute == <<"parse", "persist", "compute", "summary">>

\* the steps of raid_manager_bot.py:277-338 in the order of the statements:
\* parse_roster_data (277), the calculations (285-303), save_run_log_entry
\* (320), the public embed (338)
StepsThroughSummary == <<"parse", "compute", "persist", "summary">>

\* save_run_log_entry (raid_manager_bot.py:99-104): the list after the append
LegacyLogsAfterSave(logs, entry) == Append(logs, entry)

\* save_run_log_entry: the file after json.dump of the whole list, or as it was
\* when the write raises (the exception is printed, not raised)
LegacyFileAfterSave(file, logs, write_ok) == IF write_ok THEN logs ELSE file

\* raid_manager_bot.py:264-338: from the file read to the public embed
LegacyCutRead(t, read_ok, roster, write_ok) ==
    /\ rev = "legacy" /\ tasks[t].cmd = "cut" /\ tasks[t].pc = "reading"
    /\ LET total_gold == tasks[t].total
           parsed == Unpack2(legacy_parse_roster_data(roster))
           traced == [tasks[t] EXCEPT !.trace = <<"parse">>]
           entry == LogEntry(total_gold, parsed[1], parsed[2], Len(run_logs) + 1)
       IN  IF ~read_ok
           THEN /\ tasks' = [tasks EXCEPT ![t] = Reply(@, <<"read_error">>)]
                /\ UNCHANGED <<current_run_session, run_logs, store_logs>>
           ELSE IF parsed = ValueError
           THEN /\ current_run_session' = SessionForRun(total_gold, roster)
                /\ tasks' = [tasks EXCEPT ![t] = Finish(traced, legacy_cut_error(TRUE, "Other"))]
                /\ UNCHANGED <<run_logs, store_logs>>
           ELSE IF parsed[1] = <<>>
           THEN /\ current_run_session' = SessionForRun(total_gold, roster)
                /\ tasks' = [tasks EXCEPT ![t] = Reply(traced, <<"no_active_boosters">>)]
                /\ UNCHANGED <<run_logs, store_logs>>
           ELSE /\ current_run_session' =
                       SessionAfterSplit(total_gold, roster, parsed[1], parsed[2])
                /\ run_logs' = LegacyLogsAfterSave(run_logs, entry)
                /\ store_logs' = LegacyFileAfterSave(store_logs, run_logs', write_ok)
                /\ tasks' = [tasks EXCEPT ![t] =
                       [traced EXCEPT !.pc = "public_sent", !.active = parsed[1],
                           !.amount = GoldPerBoosterForPayment(total_gold, Len(parsed[1])),
                           !.replies = <<<<"public_embed">>>>,
                           !.trace = StepsThroughSummary]]
    /\ UNCHANGED <<call, rev, phase, attempt, db_pool, store_alts, alt_mappings, invocations>>

\* raid_manager_bot.py:340-358: the admin embed
LegacyCutAdminEmbed(t) ==
    /\ rev = "legacy" /\ tasks[t].cmd = "cut" /\ tasks[t].pc = "public_sent"
    /\ tasks' = [tasks EXCEPT ![t].pc = "admin_sent",
                              ![t].replies = Append(@, <<"admin_embed">>),
                              ![t].trace = Append(@, "detail")]
    /\ UNCHANGED <<call, rev, phase, attempt, db_pool, store_alts, store_logs, alt_mappings,
                   run_logs, current_run_session, invocations>>

RealmSuffix == <<"-","A","r","e","a","5","2">>

\* the character name with the realm (bot.py:492-495, raid_manager_bot.py:387-389)
AltNameForPayment(alt) ==
    IF ~Contains(RealmSuffix, RemoveSpaces(alt)) THEN alt \o RealmSuffix ELSE alt

\* alt_info and alt_info.get("alt") and alt_info.get("faction")
AltInfoComplete(alt_info) ==
    alt_info # None /\ alt_info.alt # <<>> /\ alt_info.faction # <<>>

W_horde == <<"h","o","r","d","e">>
W_alliance == <<"a","l","l","i","a","n","c","e">>

\* raid_manager_bot.py:383-398, the loop from participant i on;
\* out = [horde, alliance, warnings]
RECURSIVE LegacyPaymentLoop(_, _, _, _, _)
LegacyPaymentLoop(active, cache, amount, i, out) ==
    IF i > Len(active) THEN out
    ELSE LET char_name == active[i][1]
             discord_id == active[i][2]
             alt_info == DictGet(cache, discord_id)
             part == <<AltNameForPayment(alt_info.alt), PaymentSubject, Str(amount), PaymentBody>>
         IN  IF AltInfoComplete(alt_info)
             THEN IF Lower(alt_info.faction) = W_horde
                  THEN LegacyPaymentLoop(active, cache, amount, i + 1,
                                         [out EXCEPT !.horde = Append(@, part)])
                  ELSE IF Lower(alt_info.faction) = W_alliance
                  THEN LegacyPaymentLoop(active, cache, amount, i + 1,
                                         [out EXCEPT !.alliance = Append(@, part)])
                  ELSE LegacyPaymentLoop(active, cache, amount, i + 1,
                           [out EXCEPT !.warnings = Append(@, <<"unknown_faction", discord_id>>)])
             ELSE LegacyPaymentLoop(active, cache, amount, i + 1,
                      [out EXCEPT !.warnings = Append(@, <<"not_registered", discord_id>>)])

\* raid_manager_bot.py:361-440 with a subject and a body: the last message
LegacyPaymentMessage(active, cache, amount) ==
    LET out == LegacyPaymentLoop(active, cache, amount, 1,
                                 [horde |-> <<>>, alliance |-> <<>>, warnings |-> <<>>])
    IN  IF amount <= 0 /\ active # <<>> THEN <<"no_payment_amount">>
        ELSE IF active = <<>> THEN <<"no_active_for_payment">>
        ELSE IF out.horde = <<>> /\ out.alliance = <<>> /\ out.warnings = <<>>
        THEN <<"nothing_to_display">>
        ELSE <<"payments", out.horde, out.alliance, out.warnings>>

\* raid_manager_bot.py:377-381: an empty cache is loaded again from the file
LegacyCacheForPayment(cache, file, amount) ==
    IF amount > 0 /\ cache = <<>> THEN load_alt_mappings(file) ELSE cache

\* the payment strings made from the session as it is when the handler
\* resumes, not from the handler's own values
LegacyCutPaymentsFromSession(t) ==
    /\ rev = "legacy" /\ tasks[t].cmd = "cut" /\ tasks[t].pc = "admin_sent"
    /\ LET active == current_run_session.active_boosters
           amount == IF ~current_run_session.data_loaded THEN 0
                     ELSE current_run_session.gold_per_booster[1]
                            \div (current_run_session.gold_per_booster[2] * Micro)
           cache == LegacyCacheForPayment(alt_mappings, store_alts, amount)
           msg == LegacyPaymentMessage(active, cache, amount)
       IN  /\ alt_mappings' = cache
           /\ tasks' = [tasks EXCEPT ![t] =
                 Reply([@ EXCEPT !.trace = IF msg[1] = "payments"
                                           THEN @ \o <<"generate", "deliver">> ELSE @],
                       msg)]
    /\ UNCHANGED <<call, rev, phase, attempt, db_pool, store_alts, store_logs, run_logs,
                   current_run_session, invocations>>

\* raid_manager_bot.py:360-440: the payment strings and warnings
LegacyCutPayments(t) ==
    /\ rev = "legacy" /\ tasks[t].cmd = "cut" /\ tasks[t].pc = "admin_sent"
    /\ alt_mappings' = LegacyCacheForPayment(alt_mappings, store_alts, tasks[t].amount)
    /\ LET msg == LegacyPaymentMessage(tasks[t].active, alt_mappings', tasks[t].amount)
       IN  tasks' = [tasks EXCEPT ![t] =
              Reply([@ EXCEPT !.trace = IF msg[1] = "payments"
                                        THEN @ \o <<"generate", "deliver">> ELSE @],
                    msg)]
    /\ UNCHANGED <<call, rev, phase, attempt, db_pool, store_alts, store_logs, run_logs,
                   current_run_session, invocations>>

(***************************************************************************)
(* The warnings and payment strings of bot.py (lines 452-522).             *)
(***************************************************************************)
\* bot.py:456-470, the loop from participant i on; out = [admin, pings]
RECURSIVE AltWarningLoop(_, _, _, _)
AltWarningLoop(active, cache, i, out) ==
    IF i > Len(active) THEN out
    ELSE LET discord_id == active[i][2]
             alt_info == DictGet(cache, discord_id)
         IN  IF ~AltInfoComplete(alt_info)
             THEN AltWarningLoop(active, cache, i + 1,
                      [admin |-> Append(out.admin, <<"not_registered", discord_id>>),
                       pings |-> Append(out.pings, <<"ping_register", discord_id>>)])
             ELSE IF Lower(alt_info.faction) \notin {W_horde, W_alliance}
             THEN AltWarningLoop(active, cache, i + 1,
                      [admin |-> Append(out.admin, <<"unknown_faction", discord_id>>),
                       pings |-> Append(out.pings, <<"ping_faction", discord_id>>)])
             ELSE AltWarningLoop(active, cache, i + 1, out)

\* bot.py:453-470: admin_alt_warnings_list and public_warning_ping_list
AltWarnings(active, cache) ==
    AltWarningLoop(active, cache, 1, [admin |-> <<>>, pings |-> <<>>])

\* an else branch that takes every faction that is not horde for alliance
FactionBucketElseAlliance(faction) ==
    IF Lower(faction) = W_horde THEN "horde" ELSE "alliance"

\* bot.py:490-498: the bucket of a faction, "none" when it is not a known one
FactionBucket(faction) ==
    IF Lower(faction) = W_horde THEN "horde"
    ELSE IF Lower(faction) = W_alliance THEN "alliance"
    ELSE "none"

\* bot.py:487-498, the loop from participant i on; out = [horde, alliance]
RECURSIVE PaymentLoop(_, _, _, _, _)
PaymentLoop(active, cache, amount, i, out) ==
    IF i > Len(active) THEN out
    ELSE LET alt_info == DictGet(cache, active[i][2])
             part == <<AltNameForPayment(alt_info.alt), Str(amount), PaymentSubject, PaymentBody>>
         IN  IF AltInfoComplete(alt_info) /\ FactionBucket(alt_info.faction) = "horde"
             THEN PaymentLoop(active, cache, amount, i + 1,
                              [out EXCEPT !.horde = Append(@, part)])
             ELSE IF AltInfoComplete(alt_info) /\ FactionBucket(alt_info.faction) = "alliance"
             THEN PaymentLoop(active, cache, amount, i + 1,
                              [out EXCEPT !.alliance = Append(@, part)])
             ELSE PaymentLoop(active, cache, amount, i + 1, out)

\* the generation without its two terminal tests
PaymentMessageUnguarded(active, cache, amount) ==
    LET warnings == AltWarnings(active, cache).admin
        out == PaymentLoop(active, cache, amount, 1, [horde |-> <<>>, alliance |-> <<>>])
    IN  <<"payments", out.horde, out.alliance, warnings>>

\* the generation with each bucket filled from the end of the active list
PaymentMessageLastFirst(active, cache, amount) ==
    LET warnings == AltWarnings(active, cache).admin
        out == PaymentLoop(active, cache, amount, 1, [horde |-> <<>>, alliance |-> <<>>])
        Back(q) == [k \in 1..Len(q) |-> q[Len(q) + 1 - k]]
    IN  IF amount <= 0 /\ active # <<>> THEN <<"no_payment_amount", <<>>, <<>>, warnings>>
        ELSE IF active = <<>> THEN <<"no_active_for_payment", <<>>, <<>>, warnings>>
        ELSE <<"payments", Back(out.horde), Back(out.alliance), warnings>>

\* the generation with the warnings made before the await of bot.py:450,
\* from the cache as it was then
PaymentMessageWarnedEarlier(active, cache, amount) ==
    LET warnings == AltWarnings(active, call.arg.cache).admin
        out == PaymentLoop(active, cache, amount, 1, [horde |-> <<>>, alliance |-> <<>>])
    IN  IF amount <= 0 /\ active # <<>> THEN <<"no_payment_amount", <<>>, <<>>, warnings>>
        ELSE IF active = <<>> THEN <<"no_active_for_payment", <<>>, <<>>, warnings>>
        ELSE IF out.horde = <<>> /\ out.alliance = <<>> /\ warnings = <<>>
        THEN <<"nothing_to_display">>
        ELSE <<"payments", out.horde, out.alliance, warnings>>

\* bot.py:474-522: the message with the payment strings and the admin warnings
PaymentMessage(active, cache, amount) ==
    LET warnings == AltWarnings(active, cache).admin
        out == PaymentLoop(active, cache, amount, 1, [horde |-> <<>>, alliance |-> <<>>])
    IN  IF amount <= 0 /\ active # <<>> THEN <<"no_payment_amount", <<>>, <<>>, warnings>>
        ELSE IF active = <<>> THEN <<"no_active_for_payment", <<>>, <<>>, warnings>>
        ELSE IF out.horde = <<>> /\ out.alliance = <<>> /\ warnings = <<>>
        THEN <<"nothing_to_display">>
        ELSE <<"payments", out.horde, out.alliance, warnings>>

(***************************************************************************)
(* /log and /export.                                                       *)
(***************************************************************************)
\* bot.py:232-281 behind has_any_role.  The module does not import csv
\* (bot.py:5), so csv.DictWriter at line 248 raises NameError and log_error
\* answers.
LogCommand(t, authorized) ==
    /\ rev = "bot" /\ phase = "ready" /\ Free(t)
    /\ tasks' = [tasks EXCEPT ![t] =
         IF ~authorized THEN Finish(Denied("log"), log_error(FALSE, "MissingAnyRole"))
         ELSE IF run_logs = <<>> THEN Reply(NewTask("log"), <<"no_logs">>)
         ELSE Finish(NewTask("log"), log_error(TRUE, "Other"))]
    /\ invocations' = invocations + 1
    /\ UNCHANGED <<call, rev, phase, attempt, db_pool, store_alts, store_logs, alt_mappings,
                   run_logs, current_run_session>>

\* bot.py:251-278, raid_manager_bot.py:172-199: the rows written after the
\* header row.  A row is its run-level fields (here the timestamp), its
\* booster and its benched player, each <<>> when the column is left empty.
RunRows(log_entry, i, max_r) ==
    IF i >= max_r THEN <<>>
    ELSE LET active_list == log_entry.active_boosters
             benched_list == log_entry.benched_players
         IN  [k \in 1..(max_r - i) |->
                [run |-> IF i + k - 1 = 0 THEN <<log_entry.timestamp_utc>> ELSE <<>>,
                 booster |-> IF i + k - 1 < Len(active_list)
                             THEN <<active_list[i + k].name, active_list[i + k].discord_id>>
                             ELSE <<>>,
                 benched |-> IF i + k - 1 < Len(benched_list)
                             THEN <<benched_list[i + k]>> ELSE <<>>]]

BlankRow == [run |-> <<>>, booster |-> <<>>, benched |-> <<>>]

\* max(1, len(active_list), len(benched_list))
MaxR(log_entry) ==
    LET a == Len(log_entry.active_boosters)
        b == Len(log_entry.benched_players)
    IN  IF a >= b /\ a >= 1 THEN a ELSE IF b >= 1 THEN b ELSE 1

RECURSIVE CsvRows(_, _)
CsvRows(logs, idx) ==
    IF idx > Len(logs) THEN <<>>
    ELSE RunRows(logs[idx], 0, MaxR(logs[idx]))
           \o (IF Len(logs) > 1 /\ idx < Len(logs) THEN <<BlankRow>> ELSE <<>>)
           \o CsvRows(logs, idx + 1)

\* raid_manager_bot.py:158-208
LegacyLogCommand(t, authorized) ==
    /\ rev = "legacy" /\ phase = "ready" /\ Free(t)
    /\ tasks' = [tasks EXCEPT ![t] =
         IF ~authorized THEN Finish(Denied("log"), legacy_log_error(FALSE, "MissingAnyRole"))
         ELSE IF run_logs = <<>> THEN Reply(NewTask("log"), <<"no_logs">>)
         ELSE Reply(NewTask("log"),
                    <<"run_logs_csv", [i \in 1..Len(run_logs) |-> run_logs[i].timestamp_utc],
                      CsvRows(run_logs, 1)>>)]
    /\ invocations' = invocations + 1
    /\ UNCHANGED <<call, rev, phase, attempt, db_pool, store_alts, store_logs, alt_mappings,
                   run_logs, current_run_session>>

\* raid_manager_bot.py:210-224
LegacyExportCommand(t) ==
    /\ rev = "legacy" /\ phase = "ready" /\ Free(t)
    /\ tasks' = [tasks EXCEPT ![t] =
         IF ~current_run_session.data_loaded THEN Reply(NewTask("export"), <<"no_run_data">>)
         ELSE Reply(NewTask("export"),
                    <<"current_run_export", current_run_session.active_boosters,
                      current_run_session.benched_players>>)]
    /\ invocations' = invocations + 1
    /\ UNCHANGED <<call, rev, phase, attempt, db_pool, store_alts, store_logs, alt_mappings,
                   run_logs, current_run_session>>

Next ==
    \/ \E o \in AttemptOutcomes : SetupAttempt(o)
    \/ LegacySetup
    \/ \E t \in Tasks, u \in Users, a \in AltInputs, f \in FactionChoices :
          SetPaymentCharStart(t, u, a, f)
    \/ \E t \in Tasks, auth \in BOOLEAN, u \in Users, a \in AltInputs, f \in FactionChoices :
          AdminSetPaymentCharStart(t, auth, u, a, f)
    \/ \E t \in Tasks, ok \in BOOLEAN : StoreSaveAlt(t, ok)
    \/ \E t \in Tasks : SetPaymentCharSaved(t)
    \/ \E t \in Tasks : SetPaymentCharFailed(t)
    \/ \E t \in Tasks, u \in Users : CheckPaymentAlt(t, u)
    \/ \E t \in Tasks, auth \in BOOLEAN, u \in Users : AdminCheckPaymentAlt(t, auth, u)
    \/ \E t \in Tasks, auth \in BOOLEAN, d \in DateInputs, g \in TotalInputs, f \in FileNameInputs :
          CutStart(t, auth, d, g, f)
    \/ \E t \in Tasks, ok \in BOOLEAN, r \in RosterInputs : CutRead(t, ok, r)
    \/ \E t \in Tasks, auth \in BOOLEAN, d \in DateInputs, g \in TotalInputs, f \in FileNameInputs :
          LegacyCutStart(t, auth, d, g, f)
    \/ \E t \in Tasks, ok \in BOOLEAN, r \in RosterInputs, w \in BOOLEAN :
          LegacyCutRead(t, ok, r, w)
    \/ \E t \in Tasks : LegacyCutAdminEmbed(t)
    \/ \E t \in Tasks : LegacyCutPayments(t)
    \/ \E t \in Tasks, auth \in BOOLEAN : LogCommand(t, auth)
    \/ \E t \in Tasks, auth \in BOOLEAN : LegacyLogCommand(t, auth)
    \/ \E t \in Tasks : LegacyExportCommand(t)

Spec == Init /\ [][Next]_vars

\* discord.py awaits setup_hook before it dispatches anything: a started
\* attempt comes to its end and the loop goes on to the next one
Startup == (\E outcome \in AttemptOutcomes : SetupAttempt(outcome)) \/ LegacySetup

StartupSpec == Spec /\ WF_vars(Startup)


(***************************************************************************)
(* Functions of the program called on their own, on arguments drawn from   *)
(* bounded sets.  The process itself stays as it is before startup.        *)
(***************************************************************************)
\* the process before startup, with an empty store
Standby ==
    /\ rev = "bot" /\ phase = "starting" /\ attempt = 0 /\ db_pool = FALSE
    /\ store_alts = {} /\ store_logs = <<>>
    /\ alt_mappings = <<>> /\ run_logs = <<>>
    /\ current_run_session = NewRunData
    /\ tasks = [t \in Tasks |-> IdleTask]
    /\ invocations = 0

\* sequences over S of length at most n
SeqsUpTo(S, n) == UNION {[1..k -> S] : k \in 0..n}

\* longest list of active participants the payment strings are generated for
MaxActive == 2

\* active participants as parse_roster_data returns them
GenParticipants == {<<<<"A","l">>, U1>>, <<<<"O","x">>, U2>>}

\* registry records: complete ones of either faction in either case, one of an
\* unknown faction, one without a character, one without a faction, one whose
\* character carries the realm already
GenInfos ==
    { [alt |-> <<"T","h">>, faction |-> <<"H","o","r","d","e">>],
      [alt |-> <<"J"," ","a">>, faction |-> <<"A","L","L","I","A","N","C","E">>],
      [alt |-> <<"Z","z">>, faction |-> <<"N","e","u","t","r","a","l">>],
      [alt |-> <<>>, faction |-> <<"H","o","r","d","e">>],
      [alt |-> <<"Q","q">>, faction |-> <<>>],
      [alt |-> <<"R","-","A","r","e","a","5","2">>, faction |-> <<"h","o","r","d","e">>] }

\* the caches: a record for some of the participants
GenCaches == UNION {[D -> GenInfos] : D \in SUBSET Users}

\* the integer amounts per participant
GenAmounts == {0, 316}

GenInit ==
    /\ Standby
    /\ \E a \in SeqsUpTo(GenParticipants, MaxActive), c \in GenCaches, g \in GenAmounts :
          call = [fn |-> "", arg |-> [active |-> a, cache |-> c, amount |-> g], out |-> <<>>]

\* bot.py:452-522 on its own
CallPaymentMessage ==
    /\ call.fn = ""
    /\ call' = [call EXCEPT !.fn = "bot.payments",
                  !.out = [message |-> PaymentMessage(call.arg.active, call.arg.cache, call.arg.amount),
                           pings |-> AltWarnings(call.arg.active, call.arg.cache).pings]]
    /\ UNCHANGED process

\* raid_manager_bot.py:360-440 on its own; this revision has no pings
CallLegacyPaymentMessage ==
    /\ call.fn = ""
    /\ call' = [call EXCEPT !.fn = "legacy.payments",
                  !.out = [message |-> LegacyPaymentMessage(call.arg.active, call.arg.cache,
                                                            call.arg.amount),
                           pings |-> <<>>]]
    /\ UNCHANGED process

GenNext == CallPaymentMessage \/ CallLegacyPaymentMessage

GenSpec == GenInit /\ [][GenNext]_vars

\* most data rows after the prefix of a roster text
MaxRows == 2

\* the fields a data row is made of: roles in and out of the exclusion set,
\* names and ids present, padded, empty or not numeric
RowRoles == {<<"d","p","s">>, <<" ","B","e","n","c","h">>,
             <<"T","e","n","t","a","t","i","v","e">>, <<"a","b","s","e","n","c","e">>}
RowNames == {<<" ","A","l">>, <<"B","o">>, <<>>}
RowIds == {<<"1","1">>, <<>>, <<"x">>}

\* the data rows: six columns, or three only
DataRows ==
    {<<r, <<>>, n, d, <<"t">>, <<"s">>>> : r \in RowRoles, n \in RowNames, d \in RowIds}
      \cup {<<<<"d","p","s">>, <<>>, <<"A","l">>>>}

\* the event-summary header and the row after it, holding the date
EventHeaderRow == <<<<"N","a","m","e">>, <<"D","a","t","e">>>>
EventDataRow(date) == <<<<"R","u","n">>, date>>
DMY == <<"3","1","-","1","-","2","0","2","4">>
YMD == <<"2","0","2","4","-","0","1","-","3","1">>

\* what precedes the data rows: the player-list header alone
PlainPrefix == <<PlayerHeaderRow>>

\* or after an event-summary section: complete, with a date that is not
\* day-month-year, with a data row of one column, without its data row
EventPrefixes ==
    { <<EventHeaderRow, EventDataRow(DMY), PlayerHeaderRow>>,
      <<EventHeaderRow, EventDataRow(YMD), PlayerHeaderRow>>,
      <<EventHeaderRow, <<<<"R","u","n">>>>, PlayerHeaderRow>>,
      <<EventHeaderRow, PlayerHeaderRow>> }

\* or no player-list header at all
HeaderlessPrefixes == { <<>>, <<EventHeaderRow>>, <<EventHeaderRow, EventDataRow(DMY)>> }

\* the roster texts: a prefix and the data rows after it
RosterTexts ==
    {[prefix |-> PlainPrefix, rows |-> r] : r \in SeqsUpTo(DataRows, MaxRows)}
      \cup {[prefix |-> p, rows |-> r] :
               p \in EventPrefixes \cup HeaderlessPrefixes, r \in SeqsUpTo(DataRows, 1)}

ParseInit ==
    /\ Standby
    /\ \E x \in RosterTexts : call = [fn |-> "", arg |-> x, out |-> <<>>]

\* utils.parse_roster_data on its own
CallParseRosterData ==
    /\ call.fn = ""
    /\ LET r == parse_roster_data(call.arg.prefix \o call.arg.rows)
       IN  call' = [call EXCEPT !.fn = "utils.parse_roster_data",
                       !.out = [run_date |-> r[1], active |-> r[2], benched |-> r[3]]]
    /\ UNCHANGED process

\* parse_roster_data of raid_manager_bot.py on its own; it returns no date
CallLegacyParseRosterData ==
    /\ call.fn = ""
    /\ LET r == legacy_parse_roster_data(call.arg.prefix \o call.arg.rows)
       IN  call' = [call EXCEPT !.fn = "legacy.parse_roster_data",
                       !.out = [run_date |-> NoDate, active |-> r[1], benched |-> r[2]]]
    /\ UNCHANGED process

ParseNext == CallParseRosterData \/ CallLegacyParseRosterData

ParseSpec == ParseInit /\ [][ParseNext]_vars

\* most active participants a total is split between
MaxParticipants == 3

\* totals, and percentages in 1/1000: none, those of config.py, a half,
\* nearly all, and for the raid leader one below zero
SplitTotals == {1, 3, 500, 1000, 2000}
GuildPermilles == {0, 35, 500, 999}
RaidLeaderPermilles == {-10, 0, 15, 500, 999}

SplitInit ==
    /\ Standby
    /\ \E total \in SplitTotals, rl \in RaidLeaderPermilles, g \in GuildPermilles,
          n \in 1..MaxParticipants :
          call = [fn |-> "",
                  arg |-> [total |-> total, rl_permille |-> rl, guild_permille |-> g, n |-> n],
                  out |-> <<>>]

\* bot.py:356-373 on its own; raid_manager_bot.py:285-302 is the same text
CallSplit ==
    /\ call.fn = ""
    /\ LET x == call.arg IN
       call' = [call EXCEPT !.fn = "split",
         !.out = [raid_leader_share_amount |->
                      calculated_raid_leader_share_amount(x.total, x.rl_permille),
                  guild_share |-> guild_share_amount(x.total, x.rl_permille, x.guild_permille),
                  gold_per_booster |->
                      gold_per_booster_precise(x.total, x.rl_permille, x.guild_permille, x.n),
                  gold_per_booster_for_payment |->
                      gold_per_booster_for_payment(x.total, x.rl_permille, x.guild_permille,
                                                   x.n)]]
    /\ UNCHANGED process

SplitNext == CallSplit

SplitSpec == SplitInit /\ [][SplitNext]_vars

(***************************************************************************)
(* send_long_message_or_file (utils.py:249-286, raid_manager_bot.py:107-   *)
(* 142).  The threshold is in characters, so a text is kept as its runs:   *)
(* a sequence of <<character, number of repetitions>>.                     *)
(***************************************************************************)
\* utils.py:272  len(full_message) > 1950
InlineLimit == 1950

\* utils.py:278  len(primary_content) < 300
IntroLimit == 300

\* n times the character c
Run(c, n) == IF n = 0 THEN <<>> ELSE << <<c, n>> >>

\* len(text)
RECURSIVE TLen(_)
TLen(text) == IF text = <<>> THEN 0 ELSE Head(text)[2] + TLen(Tail(text))

\* not text.strip()
IsBlank(text) == \A k \in 1..Len(text) : text[k][1] \in {" ", "\n"}

\* the number of newlines the text ends with
RECURSIVE TrailingNewlines(_)
TrailingNewlines(text) ==
    IF text = <<>> THEN 0
    ELSE IF text[Len(text)][1] # "\n" THEN 0
    ELSE text[Len(text)][2] + TrailingNewlines(SubSeq(text, 1, Len(text) - 1))

\* utils.py:254-260: primary, then secondary after a blank line
full_message(primary_content, secondary_content) ==
    IF secondary_content = <<>> THEN primary_content
    ELSE IF primary_content # <<>> /\ TrailingNewlines(primary_content) < 2
    THEN primary_content \o Run("\n", 2 - TrailingNewlines(primary_content))
           \o secondary_content
    ELSE primary_content \o secondary_content

\* utils.py:276-280: the text sent along with the file, as the sentence it
\* is made of and the content it quotes
intro_text(primary_content, secondary_content) ==
    IF primary_content # <<>> /\ TLen(primary_content) < IntroLimit
    THEN [note |-> "... (additional details in attached file)", text |-> primary_content]
    ELSE IF primary_content = <<>> /\ secondary_content # <<>>
    THEN [note |-> "Details attached as file.", text |-> <<>>]
    ELSE [note |-> "Output too long, attached as file.", text |-> <<>>]

\* utils.py:272-286 with the placeholder of the revision: the messages sent
SendLongMessageOrFile(primary_content, secondary_content, placeholder) ==
    LET full == full_message(primary_content, secondary_content)
    IN  IF TLen(full) > InlineLimit
        THEN << [kind |-> "file",
                 note |-> intro_text(primary_content, secondary_content).note,
                 text |-> intro_text(primary_content, secondary_content).text,
                 file |-> full] >>
        ELSE IF IsBlank(full)
        THEN << [kind |-> "inline", note |-> placeholder, text |-> <<>>, file |-> <<>>] >>
        ELSE << [kind |-> "inline", note |-> "", text |-> full, file |-> <<>>] >>

\* utils.py:283
send_long_message_or_file(primary_content, secondary_content) ==
    SendLongMessageOrFile(primary_content, secondary_content, "No information to display.")

\* raid_manager_bot.py:139
legacy_send_long_message_or_file(primary_content, secondary_content) ==
    SendLongMessageOrFile(primary_content, secondary_content,
                          "No payment information or warnings to display.")

\* primary contents: none, short without and with newlines at the end,
\* blank, too long for the intro, at the threshold and above it
PrimaryContents ==
    { <<>>, Run("x", 10), Run("x", 10) \o Run("\n", 1), Run("x", 10) \o Run("\n", 2),
      Run(" ", 3), Run("x", 300), Run("x", 1950), Run("x", 1951), Run("x", 2000) }

\* secondary contents: none, short, blank, and those that bring a short
\* primary to the threshold, one above it, and well above it
SecondaryContents ==
    { <<>>, Run("y", 5), Run("\n", 2), Run("y", 1938), Run("y", 1939), Run("y", 1950),
      Run("y", 2000) }

FormatInit ==
    /\ Standby
    /\ \E a \in PrimaryContents, b \in SecondaryContents :
          call = [fn |-> "", arg |-> [primary_content |-> a, secondary_content |-> b],
                  out |-> <<>>]

\* utils.send_long_message_or_file on its own
CallSendLongMessageOrFile ==
    /\ call.fn = ""
    /\ call' = [call EXCEPT !.fn = "utils.send_long_message_or_file",
                  !.out = send_long_message_or_file(call.arg.primary_content,
                                                    call.arg.secondary_content)]
    /\ UNCHANGED process

\* send_long_message_or_file of raid_manager_bot.py on its own
CallLegacySendLongMessageOrFile ==
    /\ call.fn = ""
    /\ call' = [call EXCEPT !.fn = "legacy.send_long_message_or_file",
                  !.out = legacy_send_long_message_or_file(call.arg.primary_content,
                                                           call.arg.secondary_content)]
    /\ UNCHANGED process

FormatNext == CallSendLongMessageOrFile \/ CallLegacySendLongMessageOrFile

FormatSpec == FormatInit /\ [][FormatNext]_vars

(***************************************************************************)
(* bot.py:450-498 next to the registration handlers.  A /cut is suspended  *)
(* at the await of line 450 with its active list and amount; call.arg.cache*)
(* is the registry cache as it is then.  Registration handlers write the   *)
(* cache (bot.py:201) until the /cut resumes and runs lines 452-498.       *)
(***************************************************************************)
\* what set_payment_char stores: a faction of its two choices
RegisteredInfos == {info \in GenInfos : info.faction \in FactionChoices}

ResumeInit ==
    /\ rev = "bot" /\ phase = "ready" /\ attempt = 0 /\ db_pool = TRUE
    /\ store_alts = {} /\ store_logs = <<>> /\ run_logs = <<>>
    /\ current_run_session = NewRunData
    /\ tasks = [t \in Tasks |-> IdleTask]
    /\ invocations = 0
    /\ \E a \in SeqsUpTo(GenParticipants, MaxActive), c \in GenCaches, g \in GenAmounts :
          /\ alt_mappings = c
          /\ call = [fn |-> "", arg |-> [active |-> a, cache |-> c, amount |-> g], out |-> <<>>]

\* bot.py:201: a registration handler resumes and writes the cache
RegistrationWritesCache(user, info) ==
    /\ call.fn = ""
    /\ alt_mappings' = DictSet(alt_mappings, user, info)
    /\ alt_mappings' # alt_mappings
    /\ UNCHANGED <<call, rev, phase, attempt, db_pool, store_alts, store_logs, run_logs,
                   current_run_session, tasks, invocations>>

\* bot.py:452-498: the /cut resumes; both loops run before the next await
CutResumes ==
    /\ call.fn = ""
    /\ call' = [call EXCEPT !.fn = "bot.cut_resumed",
                  !.out = [message |-> PaymentMessage(call.arg.active, alt_mappings,
                                                      call.arg.amount),
                           pings |-> AltWarnings(call.arg.active, alt_mappings).pings]]
    /\ UNCHANGED process

ResumeNext ==
    \/ \E u \in Users, info \in RegisteredInfos : RegistrationWritesCache(u, info)
    \/ CutResumes

ResumeSpec == ResumeInit /\ [][ResumeNext]_vars

(***************************************************************************)
(* bot.py:524-652: where the public summary and the public pings go.       *)
(* Guild ids and channel ids are positive; 0 stands for None (both are     *)
(* tested for truth only).  A channel is [id, type, guild], guild 0 for a  *)
(* channel outside any server.                                             *)
(***************************************************************************)
GuildIds == {1, 2}

\* the channels bot_instance.get_channel knows; 15 is not among them
ChannelTable ==
    { [id |-> 11, type |-> "TextChannel",  guild |-> 1],
      [id |-> 12, type |-> "TextChannel",  guild |-> 2],
      [id |-> 13, type |-> "VoiceChannel", guild |-> 1],
      [id |-> 14, type |-> "DMChannel",    guild |-> 0] }

ChannelIds == {11, 12, 13, 14, 15}

NoChannel == [id |-> 0, type |-> "NoneType", guild |-> 0]

get_channel(id) ==
    IF \E c \in ChannelTable : c.id = id
    THEN CHOOSE c \in ChannelTable : c.id = id
    ELSE NoChannel

\* config.PUBLIC_SUMMARY_CHANNEL_IDS as getattr finds it: a list of ids, one
\* id, absent (NoneType), or something else
ChannelSettings ==
    {[type |-> "list", value |-> v] : v \in SeqsUpTo(ChannelIds, 2)}
      \cup {[type |-> "int", value |-> <<c>>] : c \in ChannelIds}
      \cup {[type |-> "NoneType", value |-> <<>>], [type |-> "dict", value |-> <<>>]}

\* the invocation: its guild and its channel, a channel of that guild
Interactions ==
    {[guild_id |-> c.guild, channel_id |-> c.id] : c \in ChannelTable}
      \cup {[guild_id |-> g, channel_id |-> 0] : g \in GuildIds \cup {0}}

\* bot.py:528-559
channel_ids_to_process(setting, interaction) ==
    LET ids == IF setting.type \in {"list", "int"} THEN setting.value
               ELSE IF setting.type = "NoneType" /\ interaction.channel_id # 0
               THEN <<interaction.channel_id>>
               ELSE <<>>
    IN  IF interaction.guild_id = 0 /\ ids # <<>> /\ setting.type # "NoneType"
        THEN <<>> ELSE ids

\* the test of bot.py:563-564 without the comparison of the guilds
IsTextChannel(channel, current_guild_id) ==
    channel.type = "TextChannel"

\* bot.py:563-564
IsTargetChannel(channel, current_guild_id) ==
    /\ channel.type = "TextChannel"
    /\ channel.guild # 0 /\ channel.guild = current_guild_id

\* bot.py:561-575
target_public_channels(setting, interaction) ==
    LET ids == channel_ids_to_process(setting, interaction)
        Test(channel) == IsTargetChannel(channel, interaction.guild_id)
    IN  SelectSeq([k \in 1..Len(ids) |-> get_channel(ids[k])], Test)

PublicWarningsTitleLen == 34

\* bot.py:604-648: what is posted in the target channels, in order; a
\* channel of `forbidden` raises discord.Forbidden on every send
RECURSIVE PublicSends(_, _, _)
PublicSends(targets, pings_len, forbidden) ==
    IF targets = <<>> THEN <<>>
    ELSE LET ch == Head(targets)
             summary == IF ch.id \in forbidden THEN <<>>
                        ELSE <<[channel |-> ch, what |-> "summary"]>>
             warnings ==
                 IF pings_len = 0 \/ ch.id \in forbidden THEN <<>>
                 ELSE IF PublicWarningsTitleLen + 1 + pings_len > InlineLimit
                 THEN <<[channel |-> ch, what |-> "warnings_file"]>>
                 ELSE <<[channel |-> ch, what |-> "warnings_message"]>>
         IN  summary \o warnings \o PublicSends(Tail(targets), pings_len, forbidden)

\* bot.py:577-595 and 611-614: what the caller is told
PublicFollowups(setting, interaction, targets, forbidden) ==
    (IF targets = <<>>
     THEN IF setting.type # "NoneType" /\ setting # [type |-> "list", value |-> <<>>]
          THEN IF interaction.guild_id # 0 THEN <<"no_channel_in_server">> ELSE <<>>
          ELSE IF setting.type = "NoneType" /\ interaction.channel_id = 0
          THEN <<"no_channel_determined">>
          ELSE <<>>
     ELSE <<>>)
    \o (IF setting.type # "NoneType" /\ \E k \in 1..Len(targets) : targets[k].id \in forbidden
        THEN <<"summary_forbidden">> ELSE <<>>)

\* the lengths of "\n".join(public_warning_ping_list); 0 for no ping
PingLengths == {0, 120, 2000}

ChannelInit ==
    /\ Standby
    /\ \E s \in ChannelSettings, i \in Interactions, n \in PingLengths,
          f \in {{}, {11}} :
          call = [fn |-> "",
                  arg |-> [setting |-> s, interaction |-> i, pings_len |-> n, forbidden |-> f],
                  out |-> <<>>]

\* bot.py:524-652 on its own
CallPublicMessages ==
    /\ call.fn = ""
    /\ LET targets == target_public_channels(call.arg.setting, call.arg.interaction)
       IN  call' = [call EXCEPT !.fn = "bot.public_messages",
                      !.out = [targets |-> targets,
                               sent |-> PublicSends(targets, call.arg.pings_len,
                                                    call.arg.forbidden),
                               followups |-> PublicFollowups(call.arg.setting,
                                                call.arg.interaction, targets,
                                                call.arg.forbidden)]]
    /\ UNCHANGED process

ChannelNext == CallPublicMessages

ChannelSpec == ChannelInit /\ [][ChannelNext]_vars

(***************************************************************************)
(* Properties.                                                             *)
(***************************************************************************)
RegCmds == {"set_payment_char", "admin_set_payment_char"}
CheckCmds == {"check_payment_alt", "admin_check_payment_alt"}

LastReply(task) == task.replies[Len(task.replies)]

Range(seq) == {seq[i] : i \in DOMAIN seq}

\* the handler in slot t takes a step
Steps(t) == tasks'[t] # tasks[t]

\* the handler in slot t resumes after its store write and acknowledges
Acknowledges(t) == tasks[t].pc = "saved" /\ tasks'[t].pc = "done"

RegistrationInFlight == \E t \in Tasks : tasks[t].cmd \in RegCmds /\ InFlight(t)

\* C1: whenever no registration write is in flight, every participant id in
\* the cache maps to exactly the character and faction the store holds for
\* that id, whatever the interleaving of the registrations.
CacheNeverDivergesFromStore ==
    (rev = "bot" /\ ~RegistrationInFlight) =>
        \A id \in DOMAIN alt_mappings :
            AltRow(id, alt_mappings[id].alt, alt_mappings[id].faction) \in store_alts

\* C2: a registration whose store write fails leaves the cache as it was (no
\* step of the registration before the acknowledged resume writes the cache)
\* and answers the caller with the error reply.
FailedRegistrationLeavesCache ==
    [][\A t \in Tasks :
          /\ (Steps(t) /\ tasks'[t].cmd \in RegCmds /\ tasks[t].pc # "saved")
                => alt_mappings' = alt_mappings
          /\ (tasks[t].pc = "save_failed" /\ tasks'[t].pc = "done")
                => tasks'[t].replies = << <<"save_error">> >>]_vars

\* a registration of the participant with a record in the store at startup has
\* failed, and the cache still holds the old record
FailedRegistrationSeen ==
    \E t \in Tasks :
        /\ tasks[t].cmd \in RegCmds /\ tasks[t].pc = "done"
        /\ tasks[t].replies = << <<"save_error">> >>
        /\ tasks[t].user = U2
        /\ DictGet(alt_mappings, U2) = [alt |-> <<"O","x">>, faction |-> W_horde]

KeyUnique(rows) == \A r1, r2 \in rows : r1.id = r2.id => r1 = r2

\* the store executes the write of the registration in slot t
Commits(t) == tasks[t].pc = "saving" /\ tasks'[t].pc = "saved"

\* C3: the registry holds at most one record per participant id; a successful
\* write leaves the participant's record with the values of that write and
\* every other participant's record as it was; nothing else changes the
\* registry.
RegistryUpsertLatestWins ==
    /\ []KeyUnique(store_alts)
    /\ [][/\ \A t \in Tasks : Commits(t) =>
                /\ AltRow(tasks[t].user, tasks[t].alt, tasks[t].faction) \in store_alts'
                /\ \A r \in store_alts \cup store_alts' :
                      r.id # tasks[t].user => (r \in store_alts /\ r \in store_alts')
          /\ (\A t \in Tasks : ~Commits(t)) => store_alts' = store_alts]_vars

\* the same participant registered twice with different characters, both
\* acknowledged, and the registry holds one record for the participant
RegisteredTwiceOneRecord ==
    \E t1, t2 \in Tasks :
        /\ t1 # t2
        /\ tasks[t1].cmd \in RegCmds /\ tasks[t2].cmd \in RegCmds
        /\ tasks[t1].pc = "done" /\ tasks[t2].pc = "done"
        /\ tasks[t1].user = tasks[t2].user
        /\ Len(tasks[t1].replies) = 1 /\ Len(tasks[t2].replies) = 1
        /\ tasks[t1].replies[1][1] = "set_ok" /\ tasks[t2].replies[1][1] = "set_ok"
        /\ tasks[t1].replies[1][2] # tasks[t2].replies[1][2]
        /\ Cardinality({r \in store_alts : r.id = tasks[t1].user}) = 1

\* the cache holds the rows of the store and nothing else
CacheIsStore(cache, rows) ==
    /\ DOMAIN cache = {r.id : r \in rows}
    /\ \A id \in DOMAIN cache : AltRow(id, cache[id].alt, cache[id].faction) \in rows

\* C4: the acknowledgement of a registration carries the values the cache
\* then holds for the participant; the cache entry of a participant changes
\* only with the acknowledgement of a registration for that participant (or
\* at startup); a check for a participant with a cache entry answers with
\* exactly that character and faction; after a successful startup the cache
\* equals the store's contents.
CacheIsWriteThrough ==
    [][/\ \A t \in Tasks : Acknowledges(t) =>
            /\ tasks'[t].replies = << <<"set_ok", tasks[t].alt, tasks[t].faction>> >>
            /\ DictGet(alt_mappings', tasks[t].user) =
                   [alt |-> tasks[t].alt, faction |-> tasks[t].faction]
       /\ \A u \in Users : DictGet(alt_mappings', u) # DictGet(alt_mappings, u) =>
             \/ phase = "starting"
             \/ \E t \in Tasks : Acknowledges(t) /\ tasks[t].user = u
       /\ \A t \in Tasks :
             (Steps(t) /\ tasks'[t].cmd \in CheckCmds /\ tasks'[t].authorized) =>
                LET info == DictGet(alt_mappings, tasks'[t].user)
                IN  tasks'[t].replies =
                       IF info # None THEN << <<"registered", info.alt, info.faction>> >>
                       ELSE << <<"not_registered">> >>
       /\ (rev = "bot" /\ phase = "starting" /\ phase' = "ready" /\ db_pool')
             => CacheIsStore(alt_mappings', store_alts')]_vars

\* a check has answered with the character of a registration acknowledged
\* before it, which the store did not hold at startup
CheckSawRegistration ==
    \E t \in Tasks :
        /\ tasks[t].cmd \in CheckCmds /\ tasks[t].pc = "done"
        /\ \E f \in FactionChoices :
              tasks[t].replies = << <<"registered", <<"J","a">>, f>> >>

\* the active participants the roster parses to
ActiveParsed(roster) ==
    IF rev = "bot" THEN parse_roster_data(roster)[2] ELSE legacy_parse_roster_data(roster)[1]

\* the /cut in slot t has read the roster file and leaves the parsing behind
ParsesRoster(t) ==
    /\ tasks[t].cmd = "cut" /\ tasks[t].pc = "reading" /\ tasks'[t].pc # "reading"
    /\ tasks'[t].replies # << <<"read_error">> >>

\* C5: an invocation of /cut that passed the validations and parsed at least
\* one active participant (nothing after the parsing can reject it) adds
\* exactly one entry to the run log, and no other step of a command adds or
\* removes one.
RunLoggedOncePerPayout ==
    [][/\ \A t \in Tasks :
            (ParsesRoster(t) /\ ActiveParsed(current_run_session'.roster_raw) # <<>>) =>
                /\ Len(run_logs') = Len(run_logs) + 1
                /\ SubSeq(run_logs', 1, Len(run_logs)) = run_logs
       /\ (phase = "ready" /\ \A t \in Tasks :
               ~(ParsesRoster(t) /\ ActiveParsed(current_run_session'.roster_raw) # <<>>))
             => run_logs' = run_logs]_vars

ValidationReplies ==
    {<<"invalid_date">>, <<"total_not_positive">>, <<"bad_file_type">>, <<"no_active_boosters">>}

\* C6: a /cut rejected for its date, its total, its file name or a roster
\* without active participants is answered with the message of that
\* rejection, and the registry, its cache, the run log, its cache and the
\* current-run session are as before the invocation.
RejectedCutHasNoSideEffect ==
    [][\A t \in Tasks :
          /\ (Steps(t) /\ tasks'[t].cmd = "cut" /\ tasks'[t].pc = "done"
                /\ tasks'[t].replies # <<>> /\ LastReply(tasks'[t]) \in ValidationReplies)
               => UNCHANGED <<store_alts, store_logs, alt_mappings, run_logs,
                              current_run_session>>
          /\ (ParsesRoster(t) /\ ActiveParsed(current_run_session'.roster_raw) = <<>>)
               => tasks'[t].replies = << <<"no_active_boosters">> >>]_vars

\* C7: a privileged command invoked without an allow-listed role answers with
\* the permission-denied message of the command and changes neither the
\* registry, nor its cache, nor the run log, nor the current-run session.
UnauthorizedCallIsDenied ==
    [][\A t \in Tasks : (Steps(t) /\ ~tasks'[t].authorized) =>
          /\ tasks'[t].replies \in {<< <<"no_role">> >>, << <<"no_permission">> >>}
          /\ UNCHANGED <<store_alts, store_logs, alt_mappings, run_logs,
                         current_run_session>>]_vars

\* position of step x in a sequence of steps, 0 when it is not there
Pos(seq, x) == IF x \in Range(seq) THEN CHOOSE i \in DOMAIN seq : seq[i] = x ELSE 0

\* step b happens only after step a
Before(seq, a, b) == b \in Range(seq) => (a \in Range(seq) /\ Pos(seq, a) < Pos(seq, b))

EveryInvocationIsAnswered ==
    \A t \in Tasks : tasks[t].pc = "done" => tasks[t].replies # <<>>

\* the /cut in slot t attempts the run-log write and the store does not take it
LogWriteFails(t) ==
    /\ tasks[t].cmd = "cut"
    /\ "persist" \notin Range(tasks[t].trace) /\ "persist" \in Range(tasks'[t].trace)
    /\ store_logs' = store_logs

\* C10: when the run-log write of a /cut fails, the caller is told so, the
\* run goes on to its deliveries, and the in-memory run-log list gains no
\* entry.
FailedLogWriteIsReported ==
    [][\A t \in Tasks : LogWriteFails(t) =>
          /\ run_logs' = run_logs
          /\ <<"log_save_failed">> \in Range(tasks'[t].replies)
          /\ InFlight(t)']_vars

\* the timestamps of the runs of a log, in the order of the log
Timestamps(logs) == [i \in 1..Len(logs) |-> logs[i].timestamp_utc]

Ascending(seq) == \A i, j \in DOMAIN seq : i < j => seq[i] < seq[j]

IsPrefix(a, b) == Len(a) <= Len(b) /\ SubSeq(b, 1, Len(a)) = a

\* C11: the run log is append-only (no step changes or removes an entry of
\* the store or, once the process is up, of the in-memory list), and an
\* export of a non-empty log lists all its runs oldest first, also when the
\* list was reloaded from the store at startup.
RunLogAppendOnlyExportOldestFirst ==
    [][/\ IsPrefix(store_logs, store_logs')
       /\ (phase = "ready" => IsPrefix(run_logs, run_logs'))
       /\ \A t \in Tasks :
             (Steps(t) /\ tasks'[t].cmd = "log" /\ tasks'[t].authorized /\ run_logs # <<>>) =>
                /\ tasks'[t].replies =
                       << <<"run_logs_csv", Timestamps(run_logs), CsvRows(run_logs, 1)>> >>
                /\ Ascending(Timestamps(run_logs))]_vars

\* the parts of a payment message
MsgHorde(m) == IF m[1] = "payments" THEN m[2] ELSE <<>>
MsgAlliance(m) == IF m[1] = "payments" THEN m[3] ELSE <<>>
MsgWarnings(m) == IF Len(m) = 4 THEN m[4] ELSE <<>>

\* the participant has a registration with a character and a known faction
ValidRegistration(cache, id) ==
    /\ id \in DOMAIN cache
    /\ cache[id].alt # <<>>
    /\ Lower(cache[id].faction) \in {W_horde, W_alliance}

\* the characters the bucket of faction f must list: those of the active
\* participants validly registered with f, in the order of the active list
ExpectedBucket(active, cache, f) ==
    LET Test(p) == ValidRegistration(cache, p[2]) /\ Lower(cache[p[2]].faction) = f
        sel == SelectSeq(active, Test)
    IN  [k \in 1..Len(sel) |-> AltNameForPayment(cache[sel[k][2]].alt)]

\* the participants the warnings must name: the other active participants
ExpectedWarned(active, cache) ==
    LET Test(p) == ~ValidRegistration(cache, p[2])
        sel == SelectSeq(active, Test)
    IN  [k \in 1..Len(sel) |-> sel[k][2]]

\* C12: with at least one active participant and a positive amount, the
\* Horde bucket lists exactly the validly registered Horde participants, the
\* Alliance bucket exactly the validly registered Alliance participants, the
\* warnings exactly the others: each active participant is in one of the
\* three and in one only.
InstructionsPartitionActive ==
    (call.fn # "" /\ call.arg.active # <<>> /\ call.arg.amount > 0) =>
        LET m == call.out.message
            a == call.arg.active
            c == call.arg.cache
        IN  /\ [k \in 1..Len(MsgHorde(m)) |-> MsgHorde(m)[k][1]] = ExpectedBucket(a, c, W_horde)
            /\ [k \in 1..Len(MsgAlliance(m)) |-> MsgAlliance(m)[k][1]] =
                   ExpectedBucket(a, c, W_alliance)
            /\ [k \in 1..Len(MsgWarnings(m)) |-> MsgWarnings(m)[k][2]] = ExpectedWarned(a, c)
            /\ Len(MsgHorde(m)) + Len(MsgAlliance(m)) + Len(MsgWarnings(m)) = Len(a)

\* the payment strings of bot.py for one participant in the Alliance bucket
\* and one with a record of an unknown faction
PartitionSeen ==
    /\ call.fn = "bot.payments" /\ call.arg.amount > 0
    /\ Len(MsgAlliance(call.out.message)) = 1
    /\ MsgHorde(call.out.message) = <<>>
    /\ MsgWarnings(call.out.message) = << <<"unknown_faction", U2>> >>

\* the ids a list of warnings or pings names, in order
NamedIds(list) == [k \in 1..Len(list) |-> list[k][2]]

\* C13: with a positive amount, each active participant who is unregistered,
\* registered without a character or a faction, or registered with a faction
\* other than horde and alliance, gets one admin warning and one public ping
\* and no payment instruction.
InvalidRegistrationWarnedAndPinged ==
    (call.fn # "" /\ call.arg.active # <<>> /\ call.arg.amount > 0) =>
        /\ NamedIds(MsgWarnings(call.out.message)) =
               ExpectedWarned(call.arg.active, call.arg.cache)
        /\ NamedIds(call.out.pings) = ExpectedWarned(call.arg.active, call.arg.cache)
        /\ Len(MsgHorde(call.out.message)) + Len(MsgAlliance(call.out.message)) =
               Len(call.arg.active) - Len(ExpectedWarned(call.arg.active, call.arg.cache))

RuleRole(row) == Lower(Strip(row[1]))
RuleActive(rows) ==
    LET Test(row) == /\ Len(row) >= 4 /\ RuleRole(row) \notin EXCLUDED_ROLES
                     /\ Strip(row[3]) # <<>> /\ IsDigit(Strip(row[4]))
        sel == SelectSeq(rows, Test)
    IN  [k \in 1..Len(sel) |-> <<Strip(sel[k][3]), Strip(sel[k][4])>>]
RuleBenched(rows) ==
    LET Test(row) == /\ Len(row) >= 4 /\ RuleRole(row) \in EXCLUDED_ROLES
                     /\ Strip(row[3]) # <<>>
        sel == SelectSeq(rows, Test)
    IN  [k \in 1..Len(sel) |-> Strip(sel[k][3])]

\* C15: of the rows after the player-list header, those with a role of the
\* exclusion set are benched by name whatever their id column holds, the
\* others are active when the id is numeric and the name not empty, and
\* every other row is dropped.
RosterRowsClassifiedByRule ==
    (call.fn # "" /\ call.arg.prefix = PlainPrefix) =>
        /\ call.out.active = RuleActive(call.arg.rows)
        /\ call.out.benched = RuleBenched(call.arg.rows)

\* a is b with some of its elements left out
RECURSIVE IsSubseq(_, _)
IsSubseq(a, b) ==
    IF a = <<>> THEN TRUE
    ELSE IF b = <<>> THEN FALSE
    ELSE IF Head(a) = Head(b) THEN IsSubseq(Tail(a), Tail(b))
    ELSE IsSubseq(a, Tail(b))

\* the rows of a roster text that have a name and an id column
RosterText == call.arg.prefix \o call.arg.rows
WideRows == SelectSeq(RosterText, LAMBDA row : Len(row) >= 4)

\* C16: every active entry has a name that is not empty and an id made of
\* digits, every benched entry is the name of a row, and both lists follow
\* the order of the rows they come from, no row being used twice.
ParsedEntriesWellFormedInOrder ==
    call.fn # "" =>
        /\ \A k \in 1..Len(call.out.active) :
              /\ Len(call.out.active[k]) = 2
              /\ call.out.active[k][1] # <<>>
              /\ IsDigit(call.out.active[k][2])
        /\ IsSubseq(call.out.active,
                    [k \in 1..Len(WideRows) |-> <<Strip(WideRows[k][3]), Strip(WideRows[k][4])>>])
        /\ IsSubseq(call.out.benched, [k \in 1..Len(WideRows) |-> Strip(WideRows[k][3])])
        /\ Len(call.out.active) + Len(call.out.benched) <= Len(call.arg.rows)

\* utils.parse_roster_data has returned two different active entries
TwoActiveParsed ==
    /\ call.fn = "utils.parse_roster_data"
    /\ Len(call.out.active) = 2
    /\ call.out.active[1] # call.out.active[2]

\* the roster text has a player-list header row
HasPlayerHeader(rows) == \E i \in 1..Len(rows) : IsPlayerHeader(rows[i])

\* C17: a /cut whose roster text has no player-list header is answered as
\* a run without active participants, and no log entry is written for it.
HeaderlessRosterRejectedAsNoActive ==
    [][\A t \in Tasks :
          (ParsesRoster(t) /\ ~HasPlayerHeader(current_run_session'.roster_raw)) =>
              /\ tasks'[t].replies = << <<"no_active_boosters">> >>
              /\ UNCHANGED <<run_logs, store_logs>>]_vars

\* C18: after an event-summary section the date of its first data row is
\* returned as year-month-day, or no date when that row is missing, short or
\* not day-month-year; the player rows are classified as they are without
\* the section.
EventSectionOnlySetsDate ==
    (call.fn = "utils.parse_roster_data" /\ call.arg.prefix \in EventPrefixes) =>
        /\ call.out.active = parse_roster_data(PlainPrefix \o call.arg.rows)[2]
        /\ call.out.benched = parse_roster_data(PlainPrefix \o call.arg.rows)[3]
        /\ call.out.run_date =
               IF call.arg.prefix[2] = EventDataRow(DMY) THEN YMD ELSE NoDate

\* C19: for a total above 0, percentages from 0 to below 1 and at least one
\* participant, the raid-leader share, the guild share and the precise share
\* of every participant add up to the total.
SplitConservesTotal ==
    (call.fn = "split" /\ call.arg.rl_permille >= 0) =>
        /\ call.out.gold_per_booster[2] = call.arg.n
        /\ call.out.raid_leader_share_amount + call.out.guild_share
             + call.out.gold_per_booster[1] = call.arg.total * Micro

\* a total of 3 is split between two participants with both cuts taken
SplitOfThree ==
    /\ call.fn = "split" /\ call.arg.total = 3 /\ call.arg.n = 2
    /\ call.out.raid_leader_share_amount > 0
    /\ call.out.guild_share > 0
    /\ call.out.gold_per_booster_for_payment = 1

\* C20: the raid-leader share is the percentage of the total, or 0 for a
\* percentage of 0 or less; the guild share is the percentage of the total
\* less the raid-leader share; the precise share is what is left after both,
\* divided by the number of participants, and the integer share its whole
\* part.  1000 with 0.015 and 0.035 between 3 gives 15, 34.475 and 316.
SplitTakesGuildCutAfterRaidLeaderCut ==
    call.fn = "split" =>
        LET x == call.arg
            rl == IF x.rl_permille > 0 THEN x.rl_permille ELSE 0
            left == call.arg.total * Micro - call.out.raid_leader_share_amount
                      - call.out.guild_share
        IN  /\ call.out.raid_leader_share_amount = x.total * rl * 1000
            /\ call.out.guild_share = (x.total * 1000 - x.total * rl) * x.guild_permille
            /\ call.out.gold_per_booster = <<left, x.n>>
            /\ call.out.gold_per_booster_for_payment * x.n * Micro <= left
            /\ left - call.out.gold_per_booster_for_payment * x.n * Micro < x.n * Micro
            /\ (x.total = 1000 /\ x.rl_permille = 15 /\ x.guild_permille = 35 /\ x.n = 3) =>
                  /\ call.out.raid_leader_share_amount = 15 * Micro
                  /\ call.out.guild_share = 34475 * 1000
                  /\ call.out.gold_per_booster_for_payment = 316

\* 1000 is split with the percentages of config.py between three participants
SplitOfThousand ==
    /\ call.fn = "split"
    /\ call.arg = [total |-> 1000, rl_permille |-> RaidLeaderCutPermille,
                   guild_permille |-> GuildCutPermille, n |-> 3]
    /\ call.out.gold_per_booster_for_payment = 316

\* C21: the integer share is the whole part of the precise share: it is not
\* above the precise share and less than one below it, so the integer shares
\* of all participants never add up to more than what is left for them.
IntegerShareIsFloor ==
    call.fn = "split" =>
        LET left == call.out.gold_per_booster[1]
            n == call.out.gold_per_booster[2]
            whole == call.out.gold_per_booster_for_payment
        IN  /\ whole * n * Micro <= left
            /\ left < (whole + 1) * n * Micro
            /\ whole * 100 <= Round2(left, n * Micro)

\* 500 without cuts between three: 166.666..., logged as 166.67, mailed as 166
SplitRoundsUpOnlyInLog ==
    /\ call.fn = "split"
    /\ call.arg = [total |-> 500, rl_permille |-> 0, guild_permille |-> 0, n |-> 3]
    /\ call.out.gold_per_booster_for_payment = 166
    /\ Round2(call.out.gold_per_booster[1], call.out.gold_per_booster[2] * Micro) = 16667

\* the instruction is the one of a participant registered with faction f:
\* character with the realm once, amount, subject, body
InstructionOf(part, f) ==
    /\ Len(part) = 4
    /\ part[2] = Str(call.arg.amount)
    /\ part[3] = PaymentSubject
    /\ part[4] = PaymentBody
    /\ \E k \in 1..Len(call.arg.active) :
          LET id == call.arg.active[k][2] IN
          /\ ValidRegistration(call.arg.cache, id)
          /\ Lower(call.arg.cache[id].faction) = f
          /\ part[1] \in {call.arg.cache[id].alt, call.arg.cache[id].alt \o RealmSuffix}
          /\ Contains(RealmSuffix, RemoveSpaces(part[1]))
          /\ Contains(RealmSuffix, RemoveSpaces(call.arg.cache[id].alt)) =>
                part[1] = call.arg.cache[id].alt

\* C22: every instruction has its four fields in the order character,
\* amount, subject, body; the character carries the realm suffix once, added
\* only when the registered name without spaces does not hold it; the
\* instruction is in the bucket of the registered faction.
InstructionFieldsInOrder ==
    call.fn # "" =>
        /\ \A k \in 1..Len(MsgHorde(call.out.message)) :
              InstructionOf(MsgHorde(call.out.message)[k], W_horde)
        /\ \A k \in 1..Len(MsgAlliance(call.out.message)) :
              InstructionOf(MsgAlliance(call.out.message)[k], W_alliance)

\* the character each active participant is paid on, in the order of the list
ActiveCharacters ==
    [k \in 1..Len(call.arg.active) |->
        IF call.arg.active[k][2] \in DOMAIN call.arg.cache
        THEN AltNameForPayment(call.arg.cache[call.arg.active[k][2]].alt)
        ELSE <<>>]

\* C23: the instructions of each bucket, and the warnings, follow the order
\* of the active list.
BucketsFollowActiveOrder ==
    call.fn # "" =>
        LET m == call.out.message IN
        /\ IsSubseq([k \in 1..Len(MsgHorde(m)) |-> MsgHorde(m)[k][1]], ActiveCharacters)
        /\ IsSubseq([k \in 1..Len(MsgAlliance(m)) |-> MsgAlliance(m)[k][1]], ActiveCharacters)
        /\ IsSubseq(NamedIds(MsgWarnings(m)),
                    [k \in 1..Len(call.arg.active) |-> call.arg.active[k][2]])

\* bot.py has put two different instructions in the Horde bucket
TwoHordeInstructions ==
    /\ call.fn = "bot.payments"
    /\ Len(MsgHorde(call.out.message)) = 2
    /\ MsgHorde(call.out.message)[1] # MsgHorde(call.out.message)[2]

\* C24: one message is sent.  With both contents present the secondary
\* follows the primary after a blank line.  Up to 1950 characters the
\* combined content is sent inline, or "No information to display." when it
\* is empty or blank; above 1950 it is sent as a file with an intro, never
\* inline.
DeliveryByLength ==
    call.fn # "" =>
        LET a == call.arg.primary_content
            b == call.arg.secondary_content
            full == full_message(a, b)
            gap == TLen(full) - TLen(a) - TLen(b)
        IN  /\ Len(call.out) = 1
            /\ (a # <<>> /\ b # <<>>) =>
                  /\ SubSeq(full, 1, Len(a)) = a
                  /\ SubSeq(full, Len(full) - Len(b) + 1, Len(full)) = b
                  /\ TrailingNewlines(SubSeq(full, 1, Len(full) - Len(b))) >= 2
                  /\ gap <= 2
            /\ (a = <<>> \/ b = <<>>) => full = a \o b
            /\ TLen(full) > InlineLimit =>
                  /\ call.out[1].kind = "file" /\ call.out[1].file = full
                  /\ call.out[1].note # "" /\ TLen(call.out[1].text) < IntroLimit
            /\ (TLen(full) <= InlineLimit /\ ~IsBlank(full)) =>
                  call.out[1] = [kind |-> "inline", note |-> "", text |-> full, file |-> <<>>]
            /\ (TLen(full) <= InlineLimit /\ IsBlank(full)) =>
                  call.out[1] = [kind |-> "inline", note |-> "No information to display.",
                                 text |-> <<>>, file |-> <<>>]

\* the number of rows before the first row of run k
RECURSIVE RowsBefore(_, _)
RowsBefore(logs, k) ==
    IF k = 1 THEN 0 ELSE RowsBefore(logs, k - 1) + MaxR(logs[k - 1]) + 1

\* rows is the export of logs: each run has max(1, active, benched) rows,
\* its run-level fields on the first of them only, one booster and one
\* benched player a row, and a blank row after it unless it is the last
IsExportOf(rows, logs) ==
    /\ Len(rows) = RowsBefore(logs, Len(logs)) + MaxR(logs[Len(logs)])
    /\ \A k \in 1..Len(logs) :
          LET first == RowsBefore(logs, k) + 1
              a == logs[k].active_boosters
              b == logs[k].benched_players
          IN  /\ \A i \in 1..MaxR(logs[k]) :
                    LET row == rows[first + i - 1] IN
                    /\ row.run = IF i = 1 THEN <<logs[k].timestamp_utc>> ELSE <<>>
                    /\ row.booster = IF i <= Len(a) THEN <<a[i].name, a[i].discord_id>> ELSE <<>>
                    /\ row.benched = IF i <= Len(b) THEN <<b[i]>> ELSE <<>>
              /\ k < Len(logs) => rows[first + MaxR(logs[k])] = BlankRow

\* C25: /log by a caller with the role answers that there is nothing to
\* export when the run log is empty, and otherwise sends the export of the
\* whole run log, whether its records were added by this process or loaded
\* at startup.
LogExportFlattensEveryRun ==
    [][\A t \in Tasks :
          (Steps(t) /\ tasks'[t].cmd = "log" /\ tasks'[t].authorized) =>
              /\ Len(tasks'[t].replies) = 1
              /\ IF run_logs = <<>> THEN tasks'[t].replies[1] = <<"no_logs">>
                 ELSE /\ tasks'[t].replies[1][1] = "run_logs_csv"
                      /\ IsExportOf(tasks'[t].replies[1][3], run_logs)]_vars

\* C26: the startup loop of bot.py makes at most MaxRetries attempts, one
\* after the other, and comes to an end; it ends either with the pool set
\* and both caches loaded from the store, or with the pool None after the
\* last attempt, never with a pool and caches that were not loaded.
StartupIsBoundedRetry ==
    /\ [][(rev = "bot" /\ phase = "starting") =>
            /\ attempt < MaxRetries
            /\ phase' = "starting" => attempt' = attempt + 1 /\ attempt' < MaxRetries
            /\ phase' = "ready" =>
                  \/ /\ db_pool'
                     /\ alt_mappings' = load_all_alt_mappings_from_db(store_alts)
                     /\ run_logs' = load_all_run_logs_from_db(store_logs)
                  \/ ~db_pool' /\ attempt = MaxRetries - 1]_vars
    /\ <>(phase = "ready")

\* bot.py has started without a connection while the store holds records
StartedDegraded ==
    rev = "bot" /\ phase = "ready" /\ ~db_pool /\ store_alts # {} /\ invocations = 0

PersistingCmds == {"set_payment_char", "admin_set_payment_char", "cut"}

\* C27: without a store connection, a command that would write to the
\* store (set_payment_char, admin_set_payment_char, cut) answers that the
\* database is not available, whatever its arguments, and ends there: store,
\* registry cache, run-log cache and session stay as they are.
DegradedCommandsChangeNothing ==
    [][\A t \in Tasks :
          (rev = "bot" /\ phase = "ready" /\ ~db_pool /\ Steps(t)
             /\ tasks'[t].cmd \in PersistingCmds /\ tasks'[t].authorized) =>
              /\ tasks'[t].pc = "done"
              /\ tasks'[t].replies = << <<"db_unavailable">> >>
              /\ UNCHANGED <<store_alts, store_logs, alt_mappings, run_logs,
                             current_run_session>>]_vars

\* /cut has been answered in degraded mode
DegradedCutAnswered ==
    /\ rev = "bot" /\ phase = "ready" /\ ~db_pool
    /\ \E t \in Tasks : /\ tasks[t].cmd = "cut" /\ tasks[t].authorized
                        /\ tasks[t].replies = << <<"db_unavailable">> >>

\* the /cut in slot t sends its payment strings
SendsPayments(t) ==
    tasks[t].cmd = "cut" /\ tasks[t].pc = "admin_sent" /\ tasks'[t].pc = "done"

\* C28: whatever other /cut runs in between, the entry a /cut logs and the
\* payment strings it sends are those of its own total and of its own
\* roster.
OverlappingCutsKeepOwnSplit ==
    [][\A t \in Tasks :
          /\ (ParsesRoster(t) /\ Len(run_logs') > Len(run_logs)) =>
                LET own == ActiveParsed(current_run_session'.roster_raw) IN
                /\ tasks'[t].active = own
                /\ tasks'[t].amount = GoldPerBoosterForPayment(tasks[t].total, Len(own))
                /\ run_logs'[Len(run_logs')].total_gold = tasks[t].total
                /\ run_logs'[Len(run_logs')].num_boosters = Len(own)
                /\ run_logs'[Len(run_logs')].gold_per_booster =
                       Round2(RemainingForBoosters(tasks[t].total), Len(own) * Micro)
          /\ SendsPayments(t) =>
                LET own == GoldPerBoosterForPayment(tasks[t].total, Len(tasks[t].active))
                    m == LastReply(tasks'[t])
                IN  /\ (own <= 0) <=> (m[1] = "no_payment_amount")
                    /\ m[1] = "payments" =>
                          /\ \A part \in Range(m[2]) \cup Range(m[3]) : part[3] = Str(own)
                          /\ Len(m[2]) + Len(m[3]) + Len(m[4]) = Len(tasks[t].active)]_vars

\* two /cut with different totals and rosters have run at the same time (the
\* second slot is taken only while the first is busy), both are logged and
\* both have sent their last message
TwoCutsOverlapped ==
    /\ rev = "legacy"
    /\ \A t \in Tasks : tasks[t].cmd = "cut" /\ tasks[t].pc = "done"
    /\ Len(run_logs) = 2
    /\ run_logs[1].total_gold # run_logs[2].total_gold
    /\ run_logs[1].num_boosters # run_logs[2].num_boosters
    /\ LastReply(tasks[1])[1] = "payments"
    /\ LastReply(tasks[2])[1] = "no_payment_amount"

\* warnings and buckets are those of the active list under the cache c
SeenUnder(c) ==
    LET m == call.out.message
        a == call.arg.active
    IN  /\ NamedIds(MsgWarnings(m)) = ExpectedWarned(a, c)
        /\ [k \in 1..Len(MsgHorde(m)) |-> MsgHorde(m)[k][1]] = ExpectedBucket(a, c, W_horde)
        /\ [k \in 1..Len(MsgAlliance(m)) |-> MsgAlliance(m)[k][1]] =
               ExpectedBucket(a, c, W_alliance)

\* C29: whatever registrations were written while the /cut was suspended,
\* the warnings and the buckets it makes when it resumes are those of one
\* and the same cache: no participant is in both or in neither.
PassesSeeOneSnapshot ==
    (call.fn = "bot.cut_resumed" /\ call.arg.active # <<>> /\ call.arg.amount > 0) =>
        /\ \E c \in GenCaches : SeenUnder(c)
        /\ Len(MsgHorde(call.out.message)) + Len(MsgAlliance(call.out.message))
             + Len(MsgWarnings(call.out.message)) = Len(call.arg.active)

\* a participant without registration when the /cut was suspended has
\* registered before it resumed, and is paid
RegisteredWhileSuspended ==
    /\ call.fn = "bot.cut_resumed" /\ call.arg.amount > 0
    /\ call.arg.active = << <<<<"A","l">>, U1>> >>
    /\ U1 \notin DOMAIN call.arg.cache
    /\ Len(MsgHorde(call.out.message)) = 1
    /\ MsgWarnings(call.out.message) = <<>>

\* C30: every public message of a run goes to a text channel of the server
\* the command was invoked in; invoked outside any server with channels
\* configured, the run posts nothing.
PublicMessagesStayInServer ==
    call.fn = "bot.public_messages" =>
        /\ \A k \in 1..Len(call.out.sent) :
              /\ call.out.sent[k].channel.type = "TextChannel"
              /\ call.arg.interaction.guild_id # 0
              /\ call.out.sent[k].channel.guild = call.arg.interaction.guild_id
        /\ (call.arg.interaction.guild_id = 0 /\ call.arg.setting.type # "NoneType")
              => call.out.sent = <<>>

\* channels of both servers are configured, the run is in server 1 and has
\* pings: summary and pings go to the channel of server 1 only
ForeignChannelSkipped ==
    /\ call.fn = "bot.public_messages"
    /\ call.arg.setting = [type |-> "list", value |-> <<12, 11>>]
    /\ call.arg.interaction.guild_id = 1
    /\ Len(call.out.sent) = 2
    /\ \A k \in 1..2 : call.out.sent[k].channel.id = 11

=============================================================================
